---- MODULE Spec2Model ----
(***************************************************************************)
(* The wasmi interpreter loop (src/src/runner.rs) run on flat ISA code     *)
(* (src/src/isa.rs).  The compiled function bodies are the instruction     *)
(* sequences that src/src/validation/tests.rs records for its compile      *)
(* tests, plus a few call / host-call / br_table bodies whose emitted form *)
(* is the one-to-one translation of their Wasm text, and the bodies a      *)
(* model of the function-body compiler emits for families of Wasm texts.   *)
(*                                                                         *)
(* Positions are 0-based as in the source; TLA+ sequences are 1-based, so  *)
(* the instruction at position p is code[p + 1] and local i is             *)
(* locals[i + 1].                                                          *)
(***************************************************************************)
EXTENDS Integers, Sequences, FiniteSets, TLC

VARIABLES
    module,            \* the ModuleRef the functions of the invocation share
    function_stack,    \* VecDeque<FunctionContext> of run_interpreter_loop
    function_context,  \* the frame popped by the current loop iteration
    status,            \* "invoke" | "loop" | "run" | "done" | "trap" |
                       \* "error" | "panic" | "validate" | "validated"
    result,            \* Option<RuntimeValue> handed to the embedder
    trap,              \* TrapKind of the Err returned to the embedder
    memory,            \* the default linear memory of the module instance
    globals,           \* the values of the module instance's globals
    invocation,        \* the function and the arguments the embedder gave
    last               \* history: the step that produced this state

vars == <<module, function_stack, function_context, status, result, trap,
          memory, globals, invocation, last>>

----------------------------------------------------------------------------
(* Bounds of the model *)

\* arguments of the entry function range over 0..MaxArg
MaxArg == 1
\* the constant operand k of the parameterised bodies ranges over -1..MaxInput
MaxInput == 4
\* i32 values a host function may return range over 0..MaxHostVal
MaxHostVal == 1
\* a call is followed while fewer than MaxFrames frames are suspended
MaxFrames == 8

ArgVals == 0..MaxArg
Inputs == (-1)..MaxInput
HostVals == 0..MaxHostVal

\* Maximum number of entries in value stack.
DEFAULT_VALUE_STACK_LIMIT == 16384

----------------------------------------------------------------------------
(* Runtime values and options *)

None == [some |-> FALSE]
Some(x) == [some |-> TRUE, val |-> x]

I32(n) == [ty |-> "I32", v |-> n]
I64(n) == [ty |-> "I64", v |-> n]

\* RuntimeValue::default(value_type)
DefaultValue(t) == [ty |-> t, v |-> IF t = "I64" THEN <<0, 0>> ELSE 0]

\* Option<ValueType> of an Option<RuntimeValue>
value_type_of(opt) == IF opt.some THEN Some(opt.val.ty) ELSE None

Reverse(s) == [i \in 1..Len(s) |-> s[Len(s) + 1 - i]]
Front(s) == SubSeq(s, 1, Len(s) - 1)
Back(s) == s[Len(s)]
Prefix(s, n) == SubSeq(s, 1, n)

\* (index as u32 as usize) < n for an i32 index and a length n < 2^31:
\* a negative i32 reads as an unsigned value of at least 2^31.
U32Below(index, n) == index >= 0 /\ index < n

----------------------------------------------------------------------------
(* The instruction set *)

\* fl and res are not part of isa::Target: they record the control frame
\* the compiler resolved the label to (its stack floor, and whether a
\* branch to it carries the frame's result), for stating the claims.
Target(dst_pc, drop, keep, fl, res) ==
    [dst_pc |-> dst_pc, drop |-> drop, keep |-> keep, fl |-> fl, res |-> res]

GetLocal(d) == [op |-> "GetLocal", depth |-> d]
SetLocal(d) == [op |-> "SetLocal", depth |-> d]
Br(t) == [op |-> "Br", target |-> t]
BrIfEqz(t) == [op |-> "BrIfEqz", target |-> t]
BrIfNez(t) == [op |-> "BrIfNez", target |-> t]
BrTable(ts) == [op |-> "BrTable", table |-> ts]
Unreachable == [op |-> "Unreachable"]
Return(drop, keep) == [op |-> "Return", drop |-> drop, keep |-> keep]
Call(idx) == [op |-> "Call", index |-> idx]
Drop == [op |-> "Drop"]
I32Const(n) == [op |-> "I32Const", val |-> n]
I32Add == [op |-> "I32Add"]
\* every other opcode, by its name and its u32 operand (0 when it has none)
Instruction(op, operand) == [op |-> op, operand |-> operand]

----------------------------------------------------------------------------
(* Functions *)

\* parity_wasm::elements::Local: a run of count declared locals of one type
Local(count, value_type) == [count |-> count, value_type |-> value_type]

\* heights[p + 1] is the operand height the compiler has at position p
\* (-1 inside a polymorphic-unreachable region).
Internal(params, ret, locals, code, heights) ==
    [kind |-> "Internal", params |-> params, ret |-> ret, locals |-> locals,
     code |-> code, heights |-> heights]

Host(params, ret) == [kind |-> "Host", params |-> params, ret |-> ret]

\* A module instance as the interpreter sees it: its function index space,
\* and the index of the exported function the embedder invokes.
Module(fs, entry) == [funcs |-> fs, entry |-> entry]

\* A module instance that also has a default memory (its initial size and
\* its maximum, in pages), a default table (function indices, or None for
\* an uninitialized element) and a type section.
ModuleWith(fs, entry, mem, table, types) ==
    [funcs |-> fs, entry |-> entry, memory |-> mem, table |-> table,
     types |-> types]

\* the memory of a fresh instance: its initial pages, all bytes zero.
\* bytes holds the bytes written so far; every other byte is zero.
InitialMemory(m) ==
    [current_size |-> IF "memory" \in DOMAIN m THEN m.memory.initial ELSE 0,
     bytes |-> << >>]

----------------------------------------------------------------------------
(* Compiled bodies recorded by the compile tests of validation/tests.rs.   *)
(* Each is a module with one function; the test text gives the signature   *)
(* and declared locals, the expected vector gives the code.                *)

I32T == "I32"

\* the least and the greatest i32
MinI32 == -2147483647 - 1
MaxI32 == 2147483647

implicit_return_no_value ==
    Module(<< Internal(<<>>, None, <<>>, << Return(0, 0) >>, <<0>>) >>, 0)

implicit_return_with_value ==
    Module(<< Internal(<<>>, Some(I32T), <<>>,
                << I32Const(0), Return(0, 1) >>, <<0, 1>>) >>, 0)

implicit_return_param ==
    Module(<< Internal(<<I32T>>, None, <<>>, << Return(1, 0) >>, <<0>>) >>, 0)

get_local ==
    Module(<< Internal(<<I32T>>, Some(I32T), <<>>,
                << GetLocal(1), Return(1, 1) >>, <<0, 1>>) >>, 0)

\* explicit_return without a Return after the explicit return's
explicit_return_without_final_return ==
    Module(<< Internal(<<I32T>>, Some(I32T), <<>>,
                << GetLocal(1), Return(1, 1) >>,
                <<0, 1>>) >>, 0)

explicit_return ==
    Module(<< Internal(<<I32T>>, Some(I32T), <<>>,
                << GetLocal(1), Return(1, 1), Return(1, 1) >>,
                <<0, 1, -1>>) >>, 0)

\* add_params with the depth of each local taken at operand height 0
add_params_at_height_0 ==
    Module(<< Internal(<<I32T, I32T>>, Some(I32T), <<>>,
                << GetLocal(2), GetLocal(1), I32Add, Return(2, 1) >>,
                <<0, 1, 2, 1>>) >>, 0)

add_params ==
    Module(<< Internal(<<I32T, I32T>>, Some(I32T), <<>>,
                << GetLocal(2), GetLocal(2), I32Add, Return(2, 1) >>,
                <<0, 1, 2, 1>>) >>, 0)

\* drop_locals with the depth of the set local taken before the pop
drop_locals_depth_before_pop ==
    Module(<< Internal(<<I32T>>, None, << Local(1, I32T) >>,
                << GetLocal(2), SetLocal(2), Return(2, 0) >>,
                <<0, 1, 0>>) >>, 0)

drop_locals ==
    Module(<< Internal(<<I32T>>, None, << Local(1, I32T) >>,
                << GetLocal(2), SetLocal(1), Return(2, 0) >>,
                <<0, 1, 0>>) >>, 0)

if_without_else ==
    Module(<< Internal(<<I32T>>, Some(I32T), <<>>,
                << I32Const(1),
                   BrIfEqz(Target(4, 0, 0, 0, FALSE)),
                   I32Const(2),
                   Return(1, 1),
                   I32Const(3),
                   Return(1, 1) >>,
                <<0, 1, 0, 1, 0, 1>>) >>, 0)

\* if_else with the Wasm index of the local as the operand of SetLocal
if_else_with_local_index ==
    Module(<< Internal(<<>>, None, << Local(1, I32T) >>,
                << I32Const(1),
                   BrIfEqz(Target(5, 0, 0, 0, FALSE)),
                   I32Const(2),
                   SetLocal(0),
                   Br(Target(7, 0, 0, 0, FALSE)),
                   I32Const(3),
                   SetLocal(0),
                   Return(1, 0) >>,
                <<0, 1, 0, 1, 0, 0, 1, 0>>) >>, 0)

if_else ==
    Module(<< Internal(<<>>, None, << Local(1, I32T) >>,
                << I32Const(1),
                   BrIfEqz(Target(5, 0, 0, 0, FALSE)),
                   I32Const(2),
                   SetLocal(1),
                   Br(Target(7, 0, 0, 0, FALSE)),
                   I32Const(3),
                   SetLocal(1),
                   Return(1, 0) >>,
                <<0, 1, 0, 1, 0, 0, 1, 0>>) >>, 0)

\* if_else_returns_result with the BrIfEqz aimed at the Br of the else
if_else_returns_result_into_else_br ==
    Module(<< Internal(<<>>, None, <<>>,
                << I32Const(1),
                   BrIfEqz(Target(3, 0, 0, 0, FALSE)),
                   I32Const(2),
                   Br(Target(5, 0, 0, 0, TRUE)),
                   I32Const(3),
                   Drop,
                   Return(0, 0) >>,
                <<0, 1, 0, 1, 0, 1, 0>>) >>, 0)

if_else_returns_result ==
    Module(<< Internal(<<>>, None, <<>>,
                << I32Const(1),
                   BrIfEqz(Target(4, 0, 0, 0, FALSE)),
                   I32Const(2),
                   Br(Target(5, 0, 0, 0, TRUE)),
                   I32Const(3),
                   Drop,
                   Return(0, 0) >>,
                <<0, 1, 0, 1, 0, 1, 0>>) >>, 0)

\* if_else_branch_from_true_branch with the br_if's drop taken from the
\* height without the condition
if_else_branch_from_true_branch_without_condition ==
    Module(<< Internal(<<>>, None, <<>>,
                << I32Const(1),
                   BrIfEqz(Target(8, 0, 0, 0, FALSE)),
                   I32Const(1),
                   I32Const(1),
                   BrIfNez(Target(9, 0, 1, 0, TRUE)),
                   Drop,
                   I32Const(2),
                   Br(Target(9, 0, 0, 0, TRUE)),
                   I32Const(3),
                   Drop,
                   Return(0, 0) >>,
                <<0, 1, 0, 1, 2, 1, 0, 1, 0, 1, 0>>) >>, 0)

if_else_branch_from_true_branch ==
    Module(<< Internal(<<>>, None, <<>>,
                << I32Const(1),
                   BrIfEqz(Target(8, 0, 0, 0, FALSE)),
                   I32Const(1),
                   I32Const(1),
                   BrIfNez(Target(9, 1, 1, 0, TRUE)),
                   Drop,
                   I32Const(2),
                   Br(Target(9, 0, 0, 0, TRUE)),
                   I32Const(3),
                   Drop,
                   Return(0, 0) >>,
                <<0, 1, 0, 1, 2, 1, 0, 1, 0, 1, 0>>) >>, 0)

if_else_branch_from_false_branch ==
    Module(<< Internal(<<>>, None, <<>>,
                << I32Const(1),
                   BrIfEqz(Target(4, 0, 0, 0, FALSE)),
                   I32Const(1),
                   Br(Target(9, 0, 0, 0, TRUE)),
                   I32Const(2),
                   I32Const(1),
                   BrIfNez(Target(9, 1, 1, 0, TRUE)),
                   Drop,
                   I32Const(3),
                   Drop,
                   Return(0, 0) >>,
                <<0, 1, 0, 1, 0, 1, 2, 1, 0, 1, 0>>) >>, 0)

\* empty_loop with a branch that carries the loop's result
empty_loop_keeping_result ==
    Module(<< Internal(<<>>, None, <<>>,
                << I32Const(1),
                   BrIfNez(Target(0, 0, 1, 0, TRUE)),
                   I32Const(2),
                   Drop,
                   Return(0, 0) >>,
                <<0, 1, 0, 1, 0>>) >>, 0)

empty_loop ==
    Module(<< Internal(<<>>, None, <<>>,
                << I32Const(1),
                   BrIfNez(Target(0, 1, 0, 0, FALSE)),
                   I32Const(2),
                   Drop,
                   Return(0, 0) >>,
                <<0, 1, 0, 1, 0>>) >>, 0)

\* wabt_example with the label of $exit left pending
wabt_example_with_pending_label ==
    Module(<< Internal(<<I32T>>, Some(I32T), <<>>,
                << GetLocal(1),
                   BrIfNez(Target(-1, 1, 0, 0, FALSE)),
                   I32Const(1),
                   Return(1, 1),
                   I32Const(2),
                   Return(1, 1),
                   Return(1, 1) >>,
                <<0, 1, 0, 1, 0, 1, -1>>) >>, 0)

wabt_example ==
    Module(<< Internal(<<I32T>>, Some(I32T), <<>>,
                << GetLocal(1),
                   BrIfNez(Target(4, 1, 0, 0, FALSE)),
                   I32Const(1),
                   Return(1, 1),
                   I32Const(2),
                   Return(1, 1),
                   Return(1, 1) >>,
                <<0, 1, 0, 1, 0, 1, -1>>) >>, 0)

TestNames ==
    { "implicit_return_no_value",
      "implicit_return_with_value",
      "implicit_return_param",
      "get_local",
      "explicit_return",
      "add_params",
      "drop_locals",
      "if_without_else",
      "if_else",
      "if_else_returns_result",
      "if_else_branch_from_true_branch",
      "if_else_branch_from_false_branch",
      "empty_loop",
      "wabt_example" }

----------------------------------------------------------------------------
(* Further bodies, parameterised by a constant operand k.  Their code is   *)
(* the emitted form of the Wasm text given with each.                      *)

\* (func (result i32) i32.const k  if (result i32) i32.const 2
\*                                 else i32.const 3 end)
if_else_const(k) ==
    Module(<< Internal(<<>>, Some(I32T), <<>>,
                << I32Const(k),
                   BrIfEqz(Target(4, 0, 0, 0, FALSE)),
                   I32Const(2),
                   Br(Target(5, 0, 0, 0, TRUE)),
                   I32Const(3),
                   Return(0, 1) >>,
                <<0, 1, 0, 1, 0, 1>>) >>, 0)

\* (func (result i32) block (result i32) i32.const 8 i32.const k br 0 end)
br_keep(k) ==
    Module(<< Internal(<<>>, Some(I32T), <<>>,
                << I32Const(8),
                   I32Const(k),
                   Br(Target(3, 1, 1, 0, TRUE)),
                   Return(0, 1) >>,
                <<0, 1, 2, 1>>) >>, 0)

\* (func (result i32)
\*   block block block i32.const 20 i32.const k br_table 0 1 2 1 end
\*   i32.const 10 return end i32.const 11 return end i32.const 12)
br_table(k) ==
    Module(<< Internal(<<>>, Some(I32T), <<>>,
                << I32Const(20),
                   I32Const(k),
                   BrTable(<< Target(3, 1, 0, 0, FALSE),
                              Target(5, 1, 0, 0, FALSE),
                              Target(7, 1, 0, 0, FALSE),
                              Target(5, 1, 0, 0, FALSE) >>),
                   I32Const(10),
                   Return(0, 1),
                   I32Const(11),
                   Return(0, 1),
                   I32Const(12),
                   Return(0, 1) >>,
                <<0, 1, 2, 0, 1, 0, 1, 0, 1>>) >>, 0)

\* (func (result i32) i32.const 5 i32.const k i32.const 7 call 1 i32.add
\*                    call 2)
\* (func (param i32 i32) (result i32) (local i32) get_local 2)
\* (func)
call_internal(k) ==
    Module(<< Internal(<<>>, Some(I32T), <<>>,
                << I32Const(5),
                   I32Const(k),
                   I32Const(7),
                   Call(1),
                   I32Add,
                   Call(2),
                   Return(0, 1) >>,
                <<0, 1, 2, 3, 2, 1, 1>>),
       Internal(<<I32T, I32T>>, Some(I32T), << Local(1, I32T) >>,
                << GetLocal(1), Return(3, 1) >>,
                <<0, 1>>),
       Internal(<<>>, None, <<>>, << Return(0, 0) >>, <<0>>) >>, 0)

\* (import "env" "h1" (func (param i32) (result i32)))
\* (import "env" "h2" (func))
\* (func (export "call") (result i32)
\*   i32.const 5 i32.const k call 0 i32.add call 1)
call_host(k) ==
    Module(<< Host(<<I32T>>, Some(I32T)),
              Host(<<>>, None),
              Internal(<<>>, Some(I32T), <<>>,
                       << I32Const(5),
                          I32Const(k),
                          Call(0),
                          I32Add,
                          Call(1),
                          Return(0, 1) >>,
                       <<0, 1, 2, 2, 1, 1>>) >>, 2)

\* (func i32.const k if call 1 end)
\* (func unreachable)
trap_in_callee(k) ==
    Module(<< Internal(<<>>, None, <<>>,
                << I32Const(k),
                   BrIfEqz(Target(3, 0, 0, 0, FALSE)),
                   Call(1),
                   Return(0, 0) >>,
                <<0, 1, 0, 0>>),
       Internal(<<>>, None, <<>>,
                << Unreachable, Return(0, 0) >>,
                <<0, -1>>) >>, 0)

\* (func i32.const 7 block i32.const k br_if 0 end drop)
\* The drop of the br_if target is taken from the operand height with the
\* condition still on the stack, as in every br_if of the compile tests
\* (empty_loop, wabt_example, if_else_branch_from_true_branch,
\* if_else_branch_from_false_branch).
br_if_in_operand(k) ==
    Module(<< Internal(<<>>, None, <<>>,
                << I32Const(7),
                   I32Const(k),
                   BrIfNez(Target(3, 1, 0, 1, FALSE)),
                   Drop,
                   Return(0, 0) >>,
                <<0, 1, 2, 1, 0>>) >>, 0)

\* (import "env" "h" (func (result i32)))
\* (func (result i32)
\*   call 0 if (result i32) i32.const 3 else i32.const 4 i32.const 5 drop end)
\* (func (export "call") (result i32)
\*   i32.const 0 (DEFAULT_VALUE_STACK_LIMIT - 1 times)  call 1  call 0
\*   drop (DEFAULT_VALUE_STACK_LIMIT times))
\* The entry function fills its value stack up to one below the limit
\* before it calls.
deep_stack ==
    LET n == DEFAULT_VALUE_STACK_LIMIT IN
    Module(<< Host(<<>>, Some(I32T)),
              Internal(<<>>, Some(I32T), <<>>,
                       << Call(0),
                          BrIfEqz(Target(4, 0, 0, 0, FALSE)),
                          I32Const(3),
                          Br(Target(7, 0, 0, 0, TRUE)),
                          I32Const(4),
                          I32Const(5),
                          Drop,
                          Return(0, 1) >>,
                       <<0, 1, 0, 1, 0, 1, 2, 1>>),
              Internal(<<>>, Some(I32T), <<>>,
                       [p \in 1..(2 * n + 2) |->
                           IF p <= n - 1 THEN I32Const(0)
                           ELSE IF p = n THEN Call(1)
                           ELSE IF p = n + 1 THEN Call(0)
                           ELSE IF p <= 2 * n + 1 THEN Drop
                           ELSE Return(0, 1)],
                       [p \in 1..(2 * n + 2) |->
                           IF p <= n THEN p - 1
                           ELSE IF p = n + 1 THEN n
                           ELSE 2 * n + 2 - p]) >>, 2)

\* (func (result i32) i32.const 5 i32.const 6 call 1 i32.add)
\* (func (param i32) (result i32)
\*   i32.const 1 i32.const 2 i32.const 3 call 2 i32.add i32.add)
\* (func (param i32) (result i32) i32.const 9)
call_chain ==
    Module(<< Internal(<<>>, Some(I32T), <<>>,
                << I32Const(5),
                   I32Const(6),
                   Call(1),
                   I32Add,
                   Return(0, 1) >>,
                <<0, 1, 2, 2, 1>>),
       Internal(<<I32T>>, Some(I32T), <<>>,
                << I32Const(1),
                   I32Const(2),
                   I32Const(3),
                   Call(2),
                   I32Add,
                   I32Add,
                   Return(1, 1) >>,
                <<0, 1, 2, 3, 3, 2, 1>>),
       Internal(<<I32T>>, Some(I32T), <<>>,
                << I32Const(9), Return(1, 1) >>,
                <<0, 1>>) >>, 0)

\* (func (param i32) (local i64) (local i32) (local i64)
\*   i32.const k set_local 2 i32.const 9 call 1)
\* (func (param i32) (local i32) (local i64))
locals_kept(k) ==
    Module(<< Internal(<<I32T>>, None,
                << Local(1, "I64"), Local(1, I32T), Local(1, "I64") >>,
                << I32Const(k),
                   SetLocal(2),
                   I32Const(9),
                   Call(1),
                   Return(4, 0) >>,
                <<0, 1, 0, 1, 0>>),
       Internal(<<I32T>>, None, << Local(1, I32T), Local(1, "I64") >>,
                << Return(3, 0) >>,
                <<0>>) >>, 0)

\* (func (result i32) i32.const 10 i32.const 20 i32.const k select)
select(k) ==
    Module(<< Internal(<<>>, Some(I32T), <<>>,
                << I32Const(10),
                   I32Const(20),
                   I32Const(k),
                   Instruction("Select", 0),
                   Return(0, 1) >>,
                <<0, 1, 2, 3, 1>>) >>, 0)

\* A module with a memory of one page that may grow to two.  It grows the
\* memory by k[1] pages, stores a word at 0, stores -2 with the store k[4]
\* at base k[2] and offset k[3], and loads the word at that place.
memory_ops(k) ==
    ModuleWith(<< Internal(<<>>, Some(I32T), <<>>,
                    << I32Const(k[1]),
                       Instruction("GrowMemory", 0),
                       Drop,
                       I32Const(0),
                       I32Const(16909060),
                       Instruction("I32Store", 0),
                       I32Const(k[2]),
                       I32Const(-2),
                       Instruction(k[4], k[3]),
                       I32Const(k[2]),
                       Instruction("I32Load", k[3]),
                       Instruction("CurrentMemory", 0),
                       Drop,
                       Return(0, 1) >>,
                    <<0, 1, 1, 0, 1, 2, 0, 1, 2, 0, 1, 1, 2, 1>>) >>, 0,
               [initial |-> 1, maximum |-> Some(2)], << >>, << >>)

\* A function that applies the binary opcode k[1] on type k[2] to the
\* constants k[3] and k[4]
binary_op(k) ==
    Module(<< Internal(<<>>, Some(k[2]), <<>>,
                << IF k[2] = "I32" THEN I32Const(k[3])
                   ELSE Instruction("I64Const", k[3]),
                   IF k[2] = "I32" THEN I32Const(k[4])
                   ELSE Instruction("I64Const", k[4]),
                   Instruction(k[1], 0),
                   Return(0, 1) >>,
                <<0, 1, 2, 1>>) >>, 0)

\* A module with a table of four elements, the second never set.  The
\* entry function calls element k[1] with the type k[2]: it pushes an
\* argument when that type has a parameter, and its own result when that
\* type has none.
call_indirect(k) ==
    ModuleWith(<< Internal(<<>>, Some(I32T), <<>>,
                    (IF k[2] = 0 THEN << I32Const(7) >> ELSE << >>)
                    \o << I32Const(k[1]),
                          Instruction("CallIndirect", k[2]) >>
                    \o (IF k[2] = 2 THEN << I32Const(3) >> ELSE << >>)
                    \o << Return(0, 1) >>,
                    CASE k[2] = 0 -> <<0, 1, 2, 1>>
                      [] k[2] = 1 -> <<0, 1, 1>>
                      [] k[2] = 2 -> <<0, 1, 0, 1>>),
                  Internal(<<I32T>>, Some(I32T), <<>>,
                    << I32Const(9), Return(1, 1) >>, <<0, 1>>),
                  Internal(<<>>, Some(I32T), <<>>,
                    << I32Const(3), Return(0, 1) >>, <<0, 1>>),
                  Host(<<>>, Some(I32T)) >>, 0,
               [initial |-> 0, maximum |-> None],
               << Some(1), None, Some(2), Some(3) >>,
               << [params |-> <<I32T>>, ret |-> Some(I32T)],
                  [params |-> <<>>, ret |-> Some(I32T)],
                  [params |-> <<>>, ret |-> None] >>)

\* A module whose functions the embedder invokes with arguments of its
\* own choice: an internal function, and two host functions
invoke_targets ==
    Module(<< Internal(<<I32T, "I64">>, Some(I32T), <<>>,
                << I32Const(1), Return(2, 1) >>, <<0, 1>>),
              Host(<<I32T>>, Some(I32T)),
              Host(<<>>, None) >>, 0)

----------------------------------------------------------------------------
(* Wasm function bodies: the texts of the compile tests, and two families  *)
(* of bodies built from a few numbers.                                      *)

\* the number of operands, parameters or locals a built body may have
MaxHeight == 2

\* The function of the given name as Wasm text; o are the numbers a built
\* body is made from.
\*   "locals", << P, D, h, op, n >>: P parameters and D declared locals;
\*       h constants, then op (get_local, set_local, tee_local) on local n,
\*       then the drops that empty the operand stack.
\*   "returns", << r, h >>: h different constants and a return, in a
\*       function with r results.
\*   "branch", << kind, r, e, wrap, brop, a >>: e constants, then a block,
\*       loop or if (kind; with r = 1 it has a result) that holds, inside
\*       a further block when wrap = 1, a surplus constants, the value the
\*       branch carries, and the branch brop to the frame of kind.
wat(name, o) ==
    LET Op(op, operand) == [op |-> op, operand |-> operand]
        Func(params, ret, locals, body) ==
            [params |-> params, ret |-> ret, locals |-> locals,
             body |-> body]
        Rep(n, x) == [i \in 1..n |-> x]
        Const(c) == Op("i32.const", c)
    IN
    CASE name = "implicit_return_no_value" ->
            Func(<<>>, None, <<>>, <<>>) []
         name = "implicit_return_with_value" ->
            Func(<<>>, Some(I32T), <<>>, << Const(0) >>) []
         name = "implicit_return_param" ->
            Func(<<I32T>>, None, <<>>, <<>>) []
         name = "get_local" ->
            Func(<<I32T>>, Some(I32T), <<>>, << Op("get_local", 0) >>) []
         name = "explicit_return" ->
            Func(<<I32T>>, Some(I32T), <<>>,
                 << Op("get_local", 0), Op("return", 0) >>) []
         name = "add_params" ->
            Func(<<I32T, I32T>>, Some(I32T), <<>>,
                 << Op("get_local", 0), Op("get_local", 1),
                    Op("i32.add", 0) >>) []
         name = "drop_locals" ->
            Func(<<I32T>>, None, << Local(1, I32T) >>,
                 << Op("get_local", 0), Op("set_local", 1) >>) []
         name = "if_without_else" ->
            Func(<<I32T>>, Some(I32T), <<>>,
                 << Const(1), Op("if", 0), Const(2), Op("return", 0),
                    Op("end", 0), Const(3) >>) []
         name = "if_else" ->
            Func(<<>>, None, << Local(1, I32T) >>,
                 << Const(1), Op("if", 0), Const(2), Op("set_local", 0),
                    Op("else", 0), Const(3), Op("set_local", 0),
                    Op("end", 0) >>) []
         name = "if_else_returns_result" ->
            Func(<<>>, None, <<>>,
                 << Const(1), Op("if", 1), Const(2), Op("else", 0),
                    Const(3), Op("end", 0), Op("drop", 0) >>) []
         name = "if_else_branch_from_true_branch" ->
            Func(<<>>, None, <<>>,
                 << Const(1), Op("if", 1), Const(1), Const(1),
                    Op("br_if", 0), Op("drop", 0), Const(2), Op("else", 0),
                    Const(3), Op("end", 0), Op("drop", 0) >>) []
         name = "if_else_branch_from_false_branch" ->
            Func(<<>>, None, <<>>,
                 << Const(1), Op("if", 1), Const(1), Op("else", 0),
                    Const(2), Const(1), Op("br_if", 0), Op("drop", 0),
                    Const(3), Op("end", 0), Op("drop", 0) >>) []
         name = "empty_loop" ->
            Func(<<>>, None, <<>>,
                 << Op("loop", 1), Const(1), Op("br_if", 0), Const(2),
                    Op("end", 0), Op("drop", 0) >>) []
         name = "wabt_example" ->
            Func(<<I32T>>, Some(I32T), <<>>,
                 << Op("block", 0), Op("get_local", 0), Op("br_if", 0),
                    Const(1), Op("return", 0), Op("end", 0), Const(2),
                    Op("return", 0) >>) []
         name = "locals" ->
            Func(Rep(o[1], I32T), None,
                 IF o[2] = 0 THEN <<>> ELSE << Local(o[2], I32T) >>,
                 Rep(o[3], Const(7)) \o << Op(o[4], o[5]) >>
                 \o Rep(o[3] + (CASE o[4] = "get_local" -> 1 []
                                     o[4] = "set_local" -> -1 []
                                     o[4] = "tee_local" -> 0),
                        Op("drop", 0))) []
         name = "returns" ->
            Func(<<>>, IF o[1] = 1 THEN Some(I32T) ELSE None, <<>>,
                 [i \in 1..o[2] |-> Const(i)] \o << Op("return", 0) >>) []
         name = "branch" ->
            LET kind == o[1]
                r == o[2]
                keep == IF kind = "loop" THEN 0 ELSE r
                opener == IF kind = "block" \/ kind = "loop"
                          THEN << Op(kind, r) >>
                          ELSE << Const(IF kind = "else" THEN 0 ELSE 1),
                                  Op("if", r) >>
                site == Rep(o[6] + keep, Const(8))
                        \o (IF o[5] = "br" THEN <<>> ELSE << Const(1) >>)
                        \o << Op(o[5], o[4]) >>
                        \o (IF o[5] = "br_if"
                            THEN Rep(o[6] + keep, Op("drop", 0)) ELSE <<>>)
                inner == IF o[4] = 1
                         THEN << Op("block", 0) >> \o site
                              \o << Op("end", 0) >> \o Rep(r, Const(9))
                         ELSE site \o (IF o[5] = "br_if"
                                       THEN Rep(r, Const(9)) ELSE <<>>)
            IN Func(<<>>, None, <<>>,
                    Rep(o[3], Const(6)) \o opener
                    \o (CASE kind = "else" ->
                                Rep(r, Const(5)) \o << Op("else", 0) >>
                                \o inner []
                             kind = "if" ->
                                inner \o << Op("else", 0) >>
                                \o Rep(r, Const(5)) []
                             OTHER -> inner)
                    \o << Op("end", 0) >>
                    \o Rep(r + o[3], Op("drop", 0)))

----------------------------------------------------------------------------
(* The function-body compiler.  It walks the Wasm opcodes of a body once,  *)
(* tracking the operand height h and a stack of control frames, and emits  *)
(* the flat code.  A forward label is emitted with dst_pc -1 and recorded  *)
(* as a pending site of its frame (p for the instruction code[p]); the     *)
(* frame's end (for the branch of an `if`, the `else`) resolves it.  A     *)
(* body is a sequence of [op, operand]: the operand is the immediate (a    *)
(* local index, a label depth, a constant, for block/loop/if 1 when the    *)
(* block has a result and 0 otherwise).  br_table is left out: no compile  *)
(* test records a compiled br_table.                                       *)

compile(f) ==
    LET L == Len(f.params)
                 + (LET u[i \in 0..Len(f.locals)] ==
                            IF i = 0 THEN 0 ELSE u[i - 1] + f.locals[i].count
                    IN u[Len(f.locals)])
        arity == IF f.ret.some THEN 1 ELSE 0
        Frame(kind, res, floor, header, if_site) ==
            [kind |-> kind, res |-> res, floor |-> floor, header |-> header,
             if_site |-> if_site, sites |-> {}, unreachable |-> FALSE]
        top(s) == Back(s.frames)
        emit(s, instr) ==
            [s EXCEPT !.code = Append(@, instr),
                      !.heights = Append(@, IF top(s).unreachable THEN -1
                                            ELSE s.h)]
        \* the operand height after n values are popped; in unreachable
        \* code the stack is polymorphic below the frame's floor
        pop(s, n) ==
            IF top(s).unreachable /\ s.h - n < top(s).floor
            THEN top(s).floor ELSE s.h - n
        label(s, d) == Len(s.frames) - d
        target(s, d) ==
            LET fr == s.frames[label(s, d)]
                keep == IF fr.res /\ fr.kind # "loop" THEN 1 ELSE 0 IN
            Target(IF fr.kind = "loop" THEN fr.header ELSE -1,
                   s.h - fr.floor - keep, keep, fr.floor, keep = 1)
        \* record the branch code[p] to the label of depth d as a pending
        \* site of the frame it names
        pending(s, p, d) ==
            IF s.frames[label(s, d)].kind = "loop" THEN s
            ELSE [s EXCEPT !.frames[label(s, d)].sites = @ \cup {p}]
        diverge(s) ==
            [s EXCEPT !.h = top(s).floor,
                      !.frames[Len(s.frames)].unreachable = TRUE]
        resolve(code, sites, dst) ==
            [p \in 1..Len(code) |->
                IF p \in sites
                THEN [code[p] EXCEPT !.target.dst_pc = dst]
                ELSE code[p]]
        step(s, op, n) ==
            CASE op = "i32.const" ->
                    [emit(s, I32Const(n)) EXCEPT !.h = s.h + 1] []
                 op = "get_local" ->
                    [emit(s, GetLocal(s.h + L - n)) EXCEPT !.h = s.h + 1] []
                 op = "set_local" ->
                    [emit(s, SetLocal(pop(s, 1) + L - n))
                        EXCEPT !.h = pop(s, 1)] []
                 op = "tee_local" ->
                    emit(s, Instruction("TeeLocal", s.h + L - n)) []
                 op = "i32.add" ->
                    [emit(s, I32Add) EXCEPT !.h = pop(s, 2) + 1] []
                 op = "drop" ->
                    [emit(s, Drop) EXCEPT !.h = pop(s, 1)] []
                 op = "unreachable" ->
                    diverge(emit(s, Unreachable)) []
                 op = "block" ->
                    [s EXCEPT !.frames =
                        Append(@, Frame("block", n = 1, s.h, -1, -1))] []
                 op = "loop" ->
                    [s EXCEPT !.frames =
                        Append(@, Frame("loop", n = 1, s.h, Len(s.code),
                                        -1))] []
                 op = "if" ->
                    [emit(s, BrIfEqz(Target(-1, 0, 0, pop(s, 1), FALSE)))
                        EXCEPT !.h = pop(s, 1),
                               !.frames =
                                   Append(@, Frame("if", n = 1, pop(s, 1),
                                                   -1, Len(s.code) + 1))] []
                 op = "else" ->
                    LET fr == top(s)
                        e == emit(s, Br(Target(-1, 0, 0, fr.floor, fr.res)))
                    IN [e EXCEPT
                          !.code = resolve(e.code, {fr.if_site},
                                           Len(e.code)),
                          !.h = fr.floor,
                          !.frames[Len(s.frames)] =
                              [fr EXCEPT !.kind = "else",
                                         !.if_site = -1,
                                         !.sites = @ \cup {Len(e.code)},
                                         !.unreachable = FALSE]] []
                 op = "end" ->
                    LET fr == top(s) IN
                    [s EXCEPT
                       !.code = resolve(s.code,
                                        fr.sites \cup {fr.if_site},
                                        Len(s.code)),
                       !.h = fr.floor + (IF fr.res THEN 1 ELSE 0),
                       !.frames = Front(@)] []
                 op = "br" ->
                    diverge(pending(emit(s, Br(target(s, n))),
                                    Len(s.code) + 1, n)) []
                 op = "br_if" ->
                    [pending(emit(s, BrIfNez(target(s, n))),
                             Len(s.code) + 1, n)
                        EXCEPT !.h = pop(s, 1)] []
                 op = "return" ->
                    diverge(emit(s, Return(L + s.h - arity, arity)))
        RECURSIVE run(_, _)
        run(s, i) ==
            IF i > Len(f.body) THEN s
            ELSE run(step(s, f.body[i].op, f.body[i].operand), i + 1)
        body == run([code |-> <<>>, heights |-> <<>>, h |-> 0,
                     frames |-> << Frame("func", arity = 1, 0, -1, -1) >>],
                    1)
        \* the function's end: its frame's labels and the final Return
        end == emit([body EXCEPT !.code = resolve(body.code,
                                                  body.frames[1].sites,
                                                  Len(body.code))],
                    Return(L, arity))
    IN Internal(f.params, f.ret, f.locals, end.code, end.heights)

----------------------------------------------------------------------------
(* The modules of the model *)

ConstNames ==
    { "if_else_const",
      "br_keep",
      "br_table",
      "call_internal",
      "call_host",
      "trap_in_callee",
      "br_if_in_operand",
      "select",
      "locals_kept" }

\* A ModuleRef: the name of a module above and its constant operand
ModuleId(name, k) == [name |-> name, k |-> k]

ModuleRefs ==
    {ModuleId(n, 0) : n \in TestNames}
    \cup {ModuleId(n, k) : n \in ConstNames, k \in Inputs}
    \cup {ModuleId("call_chain", 0), ModuleId("self_call", 0)}
    \* the bodies built from numbers, each with the code compiled from it
    \cup {id \in {[name |-> "locals", k |-> 0,
                      operands |-> <<P, D, h, op, n>>,
                      compiled |-> compile(wat("locals",
                                               <<P, D, h, op, n>>))] :
                        P \in 0..MaxHeight, D \in 0..MaxHeight,
                        h \in 0..MaxHeight,
                        op \in {"get_local", "set_local", "tee_local"},
                        n \in 0..(2 * MaxHeight - 1)} :
             /\ id.operands[5] < id.operands[1] + id.operands[2]
             /\ id.operands[4] = "get_local" \/ id.operands[3] >= 1}
    \cup {[name |-> "returns", k |-> 0, operands |-> <<r, h>>,
            compiled |-> compile(wat("returns", <<r, h>>))] :
             r \in {0, 1}, h \in 1..(MaxHeight + 1)}
    \cup {id \in {[name |-> "branch", k |-> 0,
                      operands |-> <<kind, r, e, wrap, brop, a>>,
                      compiled |-> compile(wat("branch",
                                               <<kind, r, e, wrap, brop,
                                                 a>>))] :
                        kind \in {"block", "loop", "if", "else", "then"},
                        r \in {0, 1}, e \in 0..MaxHeight, wrap \in {0, 1},
                        brop \in {"br", "br_if"},
                        a \in 0..MaxHeight} :
             id.operands[1] = "then" => id.operands[2] = 0}
    \cup {[name |-> "memory_ops", k |-> 0, operands |-> <<pages, base, offset, store>>] :
             pages \in {0, 1, 2, -1},
             base \in {0, 65532, 65533, 65535, 65536, 131068, 131069, -4, -1},
             offset \in {0, 1, 4, -1},
             store \in {"I32Store", "I32Store8"}}
    \cup {[name |-> "effects", k |-> 0, operands |-> <<value, -1, 0, op>>] :
             value \in {0, 7}, op \in {"Unreachable", "I32Load", "Drop"}}
    \cup {[name |-> "call_indirect", k |-> 0, operands |-> <<index, type>>] :
             index \in {0, 1, 2, 3, 4, -1}, type \in {0, 1, 2}}
    \cup {[name |-> "binary_op", k |-> 0, operands |-> <<op, "I32", a, b>>] :
             op \in {"I32DivS", "I32DivU", "I32RemS", "I32RemU"},
             a \in {MinI32, -7, -1, 0, 1, 7, 10, 65536, MaxI32},
             b \in {MinI32, -7, -1, 0, 1, 2, 3, 7, MaxI32}}
    \cup {[name |-> "binary_op", k |-> 0, operands |-> <<op, "I64", a, b>>] :
             op \in {"I64DivS", "I64DivU", "I64RemS", "I64RemU"},
             a \in {<<MinI32, 0>>, <<-1, -7>>, <<-1, -1>>, <<0, 0>>,
                     <<0, 1>>, <<0, 7>>, <<1, 0>>, <<MaxI32, -1>>},
             b \in {<<MinI32, 0>>, <<-1, -7>>, <<-1, -1>>, <<0, 0>>,
                     <<0, 1>>, <<0, 2>>, <<0, 7>>, <<1, 0>>, <<MaxI32, -1>>}}
    \cup {[name |-> "binary_op", k |-> 0, operands |-> <<op, "I32", x, n>>] :
             op \in {"I32Shl", "I32ShrS", "I32ShrU"},
             x \in {MinI32, -7, 1, 305419896, MaxI32},
             n \in {0, 1, 16, 31, 32, 33, 63, 64, -1, MinI32}}
    \cup {[name |-> "binary_op", k |-> 0, operands |-> <<op, "I64", x, n>>] :
             op \in {"I64Shl", "I64ShrS", "I64ShrU"},
             x \in {<<MinI32, 0>>, <<-1, -7>>, <<0, 1>>,
                     <<305419896, -1698898192>>, <<MaxI32, -1>>},
             n \in {<<0, 0>>, <<0, 1>>, <<0, 31>>, <<0, 32>>, <<0, 33>>,
                     <<0, 63>>, <<0, 64>>, <<0, 65>>, <<1, 0>>, <<-1, -1>>}}

\* the module instance behind a ModuleRef
ModuleOf(id) ==
    CASE id.name = "implicit_return_no_value" -> implicit_return_no_value []
    id.name = "implicit_return_with_value" -> implicit_return_with_value []
    id.name = "implicit_return_param" -> implicit_return_param []
    id.name = "get_local" -> get_local []
    id.name = "explicit_return" -> explicit_return []
    id.name = "add_params" -> add_params []
    id.name = "drop_locals" -> drop_locals []
    id.name = "if_without_else" -> if_without_else []
    id.name = "if_else" -> if_else []
    id.name = "if_else_returns_result" -> if_else_returns_result []
    id.name = "if_else_branch_from_true_branch" -> if_else_branch_from_true_branch []
    id.name = "if_else_branch_from_false_branch" -> if_else_branch_from_false_branch []
    id.name = "empty_loop" -> empty_loop []
    id.name = "wabt_example" -> wabt_example []
    id.name = "if_else_const" -> if_else_const(id.k) []
    id.name = "br_keep" -> br_keep(id.k) []
    id.name = "br_table" -> br_table(id.k) []
    id.name = "call_internal" -> call_internal(id.k) []
    id.name = "call_host" -> call_host(id.k) []
    id.name = "trap_in_callee" -> trap_in_callee(id.k) []
    id.name = "br_if_in_operand" -> br_if_in_operand(id.k) []
    id.name = "call_chain" -> call_chain []
    \* a function that sets global 0 to operands[1], grows its one-page
    \* memory by a page, stores into the new page and then comes to the
    \* opcode operands[4] (with the offset operands[3]) with operands[2]
    \* on the stack
    id.name = "effects" ->
        ModuleWith(<< Internal(<<>>, None, <<>>,
                        << I32Const(id.operands[1]),
                           Instruction("SetGlobal", 0),
                           I32Const(1),
                           Instruction("GrowMemory", 0),
                           Drop,
                           I32Const(65536),
                           I32Const(16909060),
                           Instruction("I32Store", 0),
                           I32Const(id.operands[2]),
                           Instruction(id.operands[4], id.operands[3]),
                           Return(0, 0) >>,
                        <<0, 1, 0, 1, 1, 0, 1, 2, 0, 1, 0>>) >>, 0,
                   [initial |-> 1, maximum |-> Some(2)], << >>, << >>)
        @@ [global_values |-> << I32(0) >>] []
    \* a function without parameters whose body is only a call to itself
    id.name = "self_call" ->
        Module(<< Internal(<<>>, None, <<>>,
                           << Call(0), Return(0, 0) >>, <<0, 0>>) >>, 0) []
    id.name = "select" -> select(id.k) []
    id.name = "locals_kept" -> locals_kept(id.k) []
    id.name = "memory_ops" -> memory_ops(id.operands) []
    id.name = "binary_op" -> binary_op(id.operands) []
    id.name = "call_indirect" -> call_indirect(id.operands) []
    id.name \in {"locals", "branch", "returns"} ->
        Module(<< id.compiled >>, 0) []
    \* a module with one table or memory, defined or imported, with the
    \* limits << min, max >>
    id.name = "limits" ->
        LET entry == << [imported |-> id.operands[1] \in {"imported table",
                                                          "imported memory"},
                         limits |-> [initial |-> id.operands[2],
                                     maximum |-> id.operands[3]]] >>
            is_table == id.operands[1] \in {"defined table", "imported table"}
        IN [funcs |-> << >>, entry |-> 0,
            tables |-> IF is_table THEN entry ELSE << >>,
            memories |-> IF is_table THEN << >> ELSE entry,
            globals |-> << >>] []
    \* a module with << imported tables, defined tables, imported memories,
    \* defined memories >>, each with the limits 10 and no maximum
    \* (module_limits_validity)
    id.name = "module_limits" ->
        LET entries(imported, defined) ==
                [i \in 1..(imported + defined) |->
                    [imported |-> i <= imported,
                     limits |-> [initial |-> 10, maximum |-> None]]]
        IN [funcs |-> << >>, entry |-> 0,
            tables |-> entries(id.operands[1], id.operands[2]),
            memories |-> entries(id.operands[3], id.operands[4]),
            globals |-> << >>] []
    \* a module with << an imported global or none, a defined immutable i32
    \* global or none, the declared type of a mutable global, its init
    \* expression >> (global_init_const, global_init_global,
    \* global_init_misc)
    id.name = "globals" ->
        LET global(imported, ty, mutable, init) ==
                [imported |-> imported, value_type |-> ty,
                 mutable |-> mutable, init |-> init]
        IN [funcs |-> << >>, entry |-> 0, tables |-> << >>,
            memories |-> << >>,
            globals |->
                (CASE id.operands[1] = "none" -> << >> []
                      id.operands[1] = "i32" ->
                          << global(TRUE, "I32", FALSE, << >>) >> []
                      id.operands[1] = "mut i32" ->
                          << global(TRUE, "I32", TRUE, << >>) >> []
                      id.operands[1] = "i64" ->
                          << global(TRUE, "I64", FALSE, << >>) >>)
                \o (IF id.operands[2]
                    THEN << global(FALSE, "I32", FALSE,
                                   << I32Const(0), Instruction("End", 0) >>) >>
                    ELSE << >>)
                \o << global(FALSE, id.operands[3], TRUE,
                             id.operands[4]) >>] []
    id.name = "invoke_targets" -> invoke_targets []
    id.name = "deep_stack" -> deep_stack

\* the function index space of the running module (func_by_index)
funcs == ModuleOf(module).funcs

----------------------------------------------------------------------------
(* Results of the interpreter's fallible operations.  A failed expect(),   *)
(* an out-of-range index and an arithmetic underflow of a usize are Rust   *)
(* panics: they unwind out of the interpreter and are neither a value nor  *)
(* a Trap.                                                                 *)

Ok(ctx, outcome) == [err |-> "none", ctx |-> ctx, outcome |-> outcome]
Err(kind, ctx) == [err |-> "trap", kind |-> kind, ctx |-> ctx]
Panic(msg, ctx) == [err |-> "panic", kind |-> msg, ctx |-> ctx]

RunNextInstruction == [tag |-> "RunNextInstruction"]
Branch(target) == [tag |-> "Branch", target |-> target]
ExecuteCall(func) == [tag |-> "ExecuteCall", func |-> func]
ReturnOutcome == [tag |-> "Return"]

StackEmpty == "Due to validation stack shouldn't be empty"
NoLocal == "Due to validation local should exists"
TypeMismatch == "Due to validation stack top's type should match"
\* `cur_stack_len - drop` below zero: the panic of a build with overflow
\* checks; without them the length wraps and resize() fails on it instead
Underflow == "attempt to subtract with overflow"

----------------------------------------------------------------------------
(* FunctionContext and its ValueStack *)

NoContext == [function |-> -1]

FunctionContextNew(function, value_stack_limit, signature_ret, args) ==
    [is_initialized |-> FALSE,
     function |-> function,
     return_type |-> signature_ret,
     value_stack |-> <<>>,
     limit |-> value_stack_limit,
     locals |-> args,
     position |-> 0]

\* StackWithLimit::push refuses a value when the stack is at its limit
StackIsFull(ctx) == Len(ctx.value_stack) >= ctx.limit

\* ValueStack::push, on a stack that is not full
Pushed(ctx, value) ==
    [ctx EXCEPT !.value_stack = Append(ctx.value_stack, value)]

\* ValueStack::pop, on a non-empty stack
Popped(ctx) == [ctx EXCEPT !.value_stack = Front(ctx.value_stack)]

Top(ctx) == Back(ctx.value_stack)

IsEmpty(ctx) == ctx.value_stack = <<>>

\* a push that never refuses a value
push_without_limit(ctx, value, outcome) == Ok(Pushed(ctx, value), outcome)

\* ValueStack::push followed by `?` and the given outcome
push(ctx, value, outcome) ==
    IF StackIsFull(ctx)
    THEN Err("StackOverflow", ctx)
    ELSE Ok(Pushed(ctx, value), outcome)

RECURSIVE ExpandLocals(_)
ExpandLocals(decl) ==
    IF decl = <<>> THEN <<>>
    ELSE [i \in 1..decl[1].count |-> DefaultValue(decl[1].value_type)]
         \o ExpandLocals(Tail(decl))

initialize(ctx, decl) ==
    [ctx EXCEPT !.is_initialized = TRUE,
                !.locals = ctx.locals \o ExpandLocals(decl)]

----------------------------------------------------------------------------
(* run_instruction: one operator per opcode handler.  Each takes the       *)
(* frame and the opcode's immediates and gives the frame after the         *)
(* handler together with its InstructionOutcome, a trap or a panic.        *)


\* i32::wrapping_add, without leaving the 32-bit range on the way
WrappingAdd(a, b) ==
    IF a > 0 /\ b > MaxI32 - a THEN (a + MinI32) + (b + MinI32)
    ELSE IF a < 0 /\ b < MinI32 - a THEN (a - MinI32) + (b - MinI32)
    ELSE a + b

\* ValueStack::pop_as::<T>() for an integer T held in a value of type ty:
\* the frame after the pop, or the panic of the failed expect()
pop_as(ctx, ty) ==
    IF IsEmpty(ctx) THEN Panic(StackEmpty, ctx)
    ELSE IF Top(ctx).ty # ty THEN Panic(TypeMismatch, Popped(ctx))
    ELSE Ok(Popped(ctx), Top(ctx).v)

run_unreachable(ctx) == Err("Unreachable", ctx)

run_br(ctx, target) == Ok(ctx, Branch(target))

run_br_nez(ctx, target) ==
    LET condition == pop_as(ctx, "I32") IN
    IF condition.err # "none" THEN condition
    ELSE IF condition.outcome # 0
         THEN Ok(condition.ctx, Branch(target))
         ELSE Ok(condition.ctx, RunNextInstruction)

run_br_eqz(ctx, target) ==
    LET condition == pop_as(ctx, "I32") IN
    IF condition.err # "none" THEN condition
    ELSE IF condition.outcome # 0
         THEN Ok(condition.ctx, RunNextInstruction)
         ELSE Ok(condition.ctx, Branch(target))

\* a selection whose default is the first entry of the table
br_table_dst_first_default(index, table) ==
    IF U32Below(index, Len(table) - 1)
    THEN table[index + 1]
    ELSE table[1]

\* the target run_br_table selects for an index popped as u32
br_table_dst(index, table) ==
    IF U32Below(index, Len(table) - 1)
    THEN table[index + 1]
    ELSE table[(Len(table) - 1) + 1]

run_br_table(ctx, table) ==
    LET index == pop_as(ctx, "I32") IN
    IF index.err # "none" THEN index
    ELSE IF Len(table) = 0 THEN Panic(Underflow, index.ctx)
    ELSE Ok(index.ctx, Branch(br_table_dst(index.outcome, table)))

run_return(ctx) == Ok(ctx, ReturnOutcome)

run_call(ctx, func_idx, fs) ==
    IF func_idx + 1 \in DOMAIN fs
    THEN Ok(ctx, ExecuteCall(func_idx))
    ELSE Panic("Due to validation func should exists", ctx)

\* TableInstance::get: the element at a u32 offset (None when it was never
\* set), or an error when the offset is outside the table
table_get(table, offset) ==
    IF U32Below(offset, Len(table))
    THEN [err |-> "none", val |-> table[offset + 1]]
    ELSE [err |-> "Table"]

\* a call_indirect that does not compare the signatures
run_call_indirect_any_signature(ctx, signature_idx, m) ==
    LET table_func_idx == pop_as(ctx, "I32") IN
    IF table_func_idx.err # "none" THEN table_func_idx
    ELSE LET func_ref == table_get(m.table, table_func_idx.outcome) IN
         IF func_ref.err # "none"
         THEN Err("TableAccessOutOfBounds", table_func_idx.ctx)
         ELSE IF ~func_ref.val.some
         THEN Err("ElemUninitialized", table_func_idx.ctx)
         ELSE Ok(table_func_idx.ctx, ExecuteCall(func_ref.val.val))

\* run_call_indirect on the module instance m: its default table, its
\* types (signature_by_index) and its functions (FuncRef::signature)
run_call_indirect(ctx, signature_idx, m) ==
    LET table_func_idx == pop_as(ctx, "I32") IN
    IF table_func_idx.err # "none" THEN table_func_idx
    ELSE LET func_ref == table_get(m.table, table_func_idx.outcome) IN
         IF func_ref.err # "none"
         THEN Err("TableAccessOutOfBounds", table_func_idx.ctx)
         ELSE IF ~func_ref.val.some
         THEN Err("ElemUninitialized", table_func_idx.ctx)
         ELSE IF signature_idx + 1 \notin DOMAIN m.types
         THEN Panic("Due to validation type should exists",
                    table_func_idx.ctx)
         ELSE LET f == m.funcs[func_ref.val.val + 1]
                  actual_function_type == [params |-> f.params, ret |-> f.ret]
                  required_function_type == m.types[signature_idx + 1] IN
              IF required_function_type # actual_function_type
              THEN Err("UnexpectedSignature", table_func_idx.ctx)
              ELSE Ok(table_func_idx.ctx, ExecuteCall(func_ref.val.val))

run_drop(ctx) ==
    IF IsEmpty(ctx) THEN Panic(StackEmpty, ctx)
    ELSE Ok(Popped(ctx), RunNextInstruction)

\* a select that takes the other value
run_select_swapped(ctx) ==
    LET h == Len(ctx.value_stack) IN
    IF h < 3 THEN Panic(StackEmpty, ctx)
    ELSE push([ctx EXCEPT !.value_stack = Prefix(ctx.value_stack, h - 3)],
              IF ctx.value_stack[h].v # 0
              THEN ctx.value_stack[h - 1] ELSE ctx.value_stack[h - 2],
              RunNextInstruction)

\* pop_triple gives (left, mid, right): right is the top of the stack
run_select(ctx) ==
    LET h == Len(ctx.value_stack) IN
    IF h < 3 THEN Panic(StackEmpty, [ctx EXCEPT !.value_stack = << >>])
    ELSE LET left == ctx.value_stack[h - 2]
             mid == ctx.value_stack[h - 1]
             right == ctx.value_stack[h]
             popped == [ctx EXCEPT !.value_stack = Prefix(ctx.value_stack, h - 3)]
         IN IF right.ty # "I32"
            THEN Panic("Due to validation stack top should be I32", popped)
            ELSE LET condition == right.v # 0
                     val == IF condition THEN left ELSE mid
                 IN push(popped, val, RunNextInstruction)

\* FunctionContext::get_local: Some(value) or None for a missing index
get_local_at(ctx, index) ==
    IF index + 1 \in DOMAIN ctx.locals
    THEN Some(ctx.locals[index + 1])
    ELSE None

run_get_local(ctx, index) ==
    LET val == get_local_at(ctx, index) IN
    IF ~val.some THEN Panic(NoLocal, ctx)
    ELSE push(ctx, val.val, RunNextInstruction)

run_set_local(ctx, index) ==
    IF IsEmpty(ctx) THEN Panic(StackEmpty, ctx)
    ELSE IF index + 1 \notin DOMAIN ctx.locals
         THEN Panic(NoLocal, Popped(ctx))
         ELSE Ok([Popped(ctx) EXCEPT !.locals[index + 1] = Top(ctx)],
                 RunNextInstruction)

run_const(ctx, val) == push(ctx, val, RunNextInstruction)

\* run_add::<i32>: pop_pair_as pops the right operand, then the left one
run_add(ctx) ==
    LET right == pop_as(ctx, "I32") IN
    IF right.err # "none" THEN right
    ELSE LET left == pop_as(right.ctx, "I32") IN
         IF left.err # "none" THEN left
         ELSE push(left.ctx, I32(WrappingAdd(left.outcome, right.outcome)),
                   RunNextInstruction)

----------------------------------------------------------------------------
(* Integer division and shifts.  An i64 is held as << high, low >>, two    *)
(* i32 words.  The operations work on the 16-bit limbs of an integer, the  *)
(* lowest limb first: two limbs for 32 bits and four for 64.               *)

\* the bits of an integer of type ty, as limbs
to_limbs(ty, v) ==
    LET word(n) == << n % 65536, (n \div 65536) % 65536 >> IN
    IF ty = "I32" THEN word(v) ELSE word(v[2]) \o word(v[1])

\* the value with the bits l: an i32 for two limbs, an i64 for four
from_limbs(l) ==
    LET word(lo, hi) ==
            (IF hi >= 32768 THEN hi - 65536 ELSE hi) * 65536 + lo IN
    IF Len(l) = 2 THEN I32(word(l[1], l[2]))
    ELSE I64(<< word(l[3], l[4]), word(l[1], l[2]) >>)

\* The machine's division of left by right # 0 (limbs): the quotient
\* rounded towards zero and the remainder with the sign of left, both
\* wrapped to the width (the minimum by -1 gives the minimum and 0).
wrapping_div_rem(left, right, signed) ==
    LET n == Len(left)
        negative(l) == signed /\ l[n] >= 32768
        \* two's complement negation: invert and add one
        neg(l) ==
            LET carry[i \in 0..n] ==
                    IF i = 0 THEN 1
                    ELSE (65535 - l[i] + carry[i - 1]) \div 65536
            IN SubSeq([i \in 1..n |->
                          (65535 - l[i] + carry[i - 1]) % 65536], 1, n)
        abs(l) == IF negative(l) THEN neg(l) ELSE l
        \* shift-and-subtract division of unsigned a by b, from bit j down
        RECURSIVE unsigned(_, _, _, _, _)
        unsigned(a, b, q, r, j) ==
            IF j < 0 THEN [q |-> q, r |-> SubSeq(r, 1, n)]
            ELSE LET limb == (j \div 16) + 1
                     bit == (a[limb] \div 2 ^ (j % 16)) % 2
                     r2 == [i \in 1..(n + 1) |->
                               ((r[i] * 2) % 65536)
                               + (IF i = 1 THEN bit ELSE r[i - 1] \div 32768)]
                     geq == \/ r2 = b
                            \/ \E i \in 1..(n + 1) :
                                  /\ r2[i] > b[i]
                                  /\ \A k \in (i + 1)..(n + 1) : r2[k] = b[k]
                     borrow[i \in 0..(n + 1)] ==
                         IF i = 0 THEN 0
                         ELSE IF r2[i] - b[i] - borrow[i - 1] < 0
                              THEN 1 ELSE 0
                     r3 == [i \in 1..(n + 1) |->
                               (r2[i] - b[i] - borrow[i - 1]) % 65536]
                     q3 == [q EXCEPT ![limb] = @ + 2 ^ (j % 16)]
                 IN IF geq /\ r3 = r3 /\ q3 = q3
                    THEN unsigned(a, b, q3, r3, j - 1)
                    ELSE unsigned(a, b, q, r2, j - 1)
        d == unsigned(abs(left), Append(abs(right), 0),
                      [i \in 1..n |-> 0], [i \in 1..(n + 1) |-> 0],
                      16 * n - 1)
    IN [q |-> IF negative(left) # negative(right) THEN neg(d.q) ELSE d.q,
        r |-> IF negative(left) THEN neg(d.r) ELSE d.r]

\* a division that gives the minimum for the minimum by -1
div_wrapping(ty, left, right, signed) ==
    IF \A i \in 1..Len(to_limbs(ty, right)) : to_limbs(ty, right)[i] = 0
    THEN [err |-> "trap", kind |-> "DivisionByZero"]
    ELSE [err |-> "none",
          val |-> from_limbs(wrapping_div_rem(to_limbs(ty, left),
                                              to_limbs(ty, right), signed).q)]

\* ArithmeticOps::div of the integers: a zero divisor and the one signed
\* quotient that does not fit (the minimum by -1) are errors
div(ty, left, right, signed) ==
    LET l == to_limbs(ty, left)
        r == to_limbs(ty, right)
        n == Len(l) IN
    IF \A i \in 1..n : r[i] = 0
    THEN [err |-> "trap", kind |-> "DivisionByZero"]
    ELSE IF /\ signed
            /\ \A i \in 1..n : r[i] = 65535
            /\ \A i \in 1..n : l[i] = IF i = n THEN 32768 ELSE 0
    THEN [err |-> "trap", kind |-> "InvalidConversionToInt"]
    ELSE [err |-> "none", val |-> from_limbs(wrapping_div_rem(l, r, signed).q)]

\* Integer::rem: a zero divisor is an error
rem(ty, left, right, signed) ==
    LET l == to_limbs(ty, left)
        r == to_limbs(ty, right) IN
    IF \A i \in 1..Len(r) : r[i] = 0
    THEN [err |-> "trap", kind |-> "DivisionByZero"]
    ELSE [err |-> "none", val |-> from_limbs(wrapping_div_rem(l, r, signed).r)]

\* run_div::<T, U>: ty is T and signed tells whether U is signed
\* a division that takes the value on top of the stack for the left operand
run_div_with_top_as_left(ctx, ty, signed) ==
    LET left == pop_as(ctx, ty) IN
    IF left.err # "none" THEN left
    ELSE LET right == pop_as(left.ctx, ty) IN
         IF right.err # "none" THEN right
         ELSE LET v == div(ty, left.outcome, right.outcome, signed) IN
              IF v.err # "none" THEN Err(v.kind, right.ctx)
              ELSE push(right.ctx, v.val, RunNextInstruction)

run_div(ctx, ty, signed) ==
    LET right == pop_as(ctx, ty) IN
    IF right.err # "none" THEN right
    ELSE LET left == pop_as(right.ctx, ty) IN
         IF left.err # "none" THEN left
         ELSE LET v == div(ty, left.outcome, right.outcome, signed) IN
              IF v.err # "none" THEN Err(v.kind, left.ctx)
              ELSE push(left.ctx, v.val, RunNextInstruction)

\* run_rem::<T, U>
run_rem(ctx, ty, signed) ==
    LET right == pop_as(ctx, ty) IN
    IF right.err # "none" THEN right
    ELSE LET left == pop_as(right.ctx, ty) IN
         IF left.err # "none" THEN left
         ELSE LET v == rem(ty, left.outcome, right.outcome, signed) IN
              IF v.err # "none" THEN Err(v.kind, left.ctx)
              ELSE push(left.ctx, v.val, RunNextInstruction)

\* a shift by the whole right operand: nothing is left of the value when
\* the amount is the width or more
run_shl_unmasked(ctx, ty, mask) ==
    LET right == pop_as(ctx, ty) IN
    IF right.err # "none" THEN right
    ELSE LET left == pop_as(right.ctx, ty) IN
         IF left.err # "none" THEN left
         ELSE LET l == to_limbs(ty, left.outcome)
                  k == to_limbs(ty, right.outcome)
                  n == Len(l)
                  small == \A i \in 2..n : k[i] = 0
                  q == k[1] \div 16
                  r == k[1] % 16
                  at(j) == IF j < 1 THEN 0 ELSE l[j]
                  v == [i \in 1..n |->
                           IF ~small THEN 0
                           ELSE ((at(i - q) % 2 ^ (16 - r)) * 2 ^ r)
                                + (at(i - q - 1) \div 2 ^ (16 - r))]
              IN push(left.ctx, from_limbs(v), RunNextInstruction)

\* run_shl::<T>: left.shl(right & mask); the mask is 2^j - 1, so the
\* amount is the low j bits of the right operand
run_shl(ctx, ty, mask) ==
    LET right == pop_as(ctx, ty) IN
    IF right.err # "none" THEN right
    ELSE LET left == pop_as(right.ctx, ty) IN
         IF left.err # "none" THEN left
         ELSE LET l == to_limbs(ty, left.outcome)
                  amount == to_limbs(ty, right.outcome)[1] % (mask + 1)
                  n == Len(l)
                  q == amount \div 16
                  r == amount % 16
                  at(j) == IF j < 1 THEN 0 ELSE l[j]
                  v == [i \in 1..n |->
                           ((at(i - q) % 2 ^ (16 - r)) * 2 ^ r)
                           + (at(i - q - 1) \div 2 ^ (16 - r))]
              IN push(left.ctx, from_limbs(v), RunNextInstruction)

\* run_shr::<T, U>: left.shr(right & mask), arithmetic when U is signed
run_shr(ctx, ty, mask, signed) ==
    LET right == pop_as(ctx, ty) IN
    IF right.err # "none" THEN right
    ELSE LET left == pop_as(right.ctx, ty) IN
         IF left.err # "none" THEN left
         ELSE LET l == to_limbs(ty, left.outcome)
                  amount == to_limbs(ty, right.outcome)[1] % (mask + 1)
                  n == Len(l)
                  q == amount \div 16
                  r == amount % 16
                  fill == IF signed /\ l[n] >= 32768 THEN 65535 ELSE 0
                  at(j) == IF j > n THEN fill ELSE l[j]
                  v == [i \in 1..n |->
                           (at(i + q) \div 2 ^ r)
                           + ((at(i + q + 1) % 2 ^ r) * 2 ^ (16 - r))]
              IN push(left.ctx, from_limbs(v), RunNextInstruction)

----------------------------------------------------------------------------
(* Linear memory.  A u32 is held as the i32 with the same bit pattern, as  *)
(* in RuntimeValue::I32: a negative number is an unsigned value of at      *)
(* least 2^31.  The memories of the model are smaller than 2^31 bytes.     *)

\* MemoryInstance::get: the size bytes at address, or None when the region
\* does not lie within the memory
memory_get(mem, address, size) ==
    IF address >= 0 /\ address <= mem.current_size * 65536 - size
    THEN Some([i \in 1..size |->
                  IF address + i - 1 \in DOMAIN mem.bytes
                  THEN mem.bytes[address + i - 1] ELSE 0])
    ELSE None

\* MemoryInstance::set: the memory with value written at address, or None
\* when the region does not lie within the memory
memory_set(mem, address, value) ==
    IF address >= 0 /\ address <= mem.current_size * 65536 - Len(value)
    THEN LET region == address..(address + Len(value) - 1) IN
         Some([mem EXCEPT !.bytes =
                  [a \in DOMAIN mem.bytes \cup region |->
                      IF a \in region THEN value[a - address + 1]
                      ELSE mem.bytes[a]]])
    ELSE None

\* MemoryInstance::grow by a u32 number of pages: the size before the grow
\* and the grown memory, or None when the new size would exceed the
\* maximum (the declared one, or 65536 pages)
memory_grow(mem, maximum, pages) ==
    LET most == IF maximum.some THEN maximum.val ELSE 65536 IN
    IF pages >= 0 /\ pages <= most - mem.current_size
    THEN Some([previous |-> mem.current_size,
               memory |-> [mem EXCEPT !.current_size = @ + pages]])
    ELSE None

\* LittleEndianConvert::into_little_endian of an integer of n bytes
into_little_endian(v, n) ==
    [i \in 1..n |->
        (CASE i = 1 -> v [] i = 2 -> v \div 256 [] i = 3 -> v \div 65536
           [] i = 4 -> v \div 16777216) % 256]

\* LittleEndianConvert::from_little_endian for i32
from_little_endian(b) ==
    b[1] + 256 * b[2] + 65536 * b[3]
    + 16777216 * (IF b[4] >= 128 THEN b[4] - 256 ELSE b[4])

\* an address sum that wraps around
effective_address_wrapping(address, offset) ==
    Some(WrappingAdd(address, offset))

\* offset.checked_add(address) on u32: None when the sum exceeds 2^32 - 1
effective_address(address, offset) ==
    IF address >= 0 /\ offset >= 0
    THEN Some(IF address > MaxI32 - offset
              THEN (address + MinI32) + (offset + MinI32)
              ELSE address + offset)
    ELSE IF address < 0 /\ offset < 0 THEN None
    ELSE IF address + offset >= 0 THEN None
    ELSE Some(address + offset)

\* run_set_global: the popped value becomes the value of the global
run_set_global(ctx, index, gs) ==
    IF IsEmpty(ctx) THEN Panic(StackEmpty, ctx)
    ELSE IF index + 1 \notin DOMAIN gs
    THEN Panic("Due to validation global should exists", Popped(ctx))
    ELSE Ok(Popped(ctx), RunNextInstruction)
         @@ ("globals" :> [gs EXCEPT ![index + 1] = Top(ctx)])

\* run_load::<i32>
run_load(ctx, offset, mem) ==
    LET raw_address == pop_as(ctx, "I32") IN
    IF raw_address.err # "none" THEN raw_address
    ELSE LET address == effective_address(offset, raw_address.outcome) IN
         IF ~address.some
         THEN Err("MemoryAccessOutOfBounds", raw_address.ctx)
         ELSE LET b == memory_get(mem, address.val, 4) IN
              IF ~b.some
              THEN Err("MemoryAccessOutOfBounds", raw_address.ctx)
              ELSE push(raw_address.ctx, I32(from_little_endian(b.val)),
                        RunNextInstruction)

\* the store of value (already in little-endian bytes) that run_store and
\* run_store_wrap share: the address is popped after the value
store_bytes(ctx, offset, mem, value) ==
    LET raw_address == pop_as(ctx, "I32") IN
    IF raw_address.err # "none" THEN raw_address
    ELSE LET address == effective_address(offset, raw_address.outcome) IN
         IF ~address.some
         THEN Err("MemoryAccessOutOfBounds", raw_address.ctx)
         ELSE LET m == memory_set(mem, address.val, value) IN
              IF ~m.some
              THEN Err("MemoryAccessOutOfBounds", raw_address.ctx)
              ELSE Ok(raw_address.ctx, RunNextInstruction)
                   @@ ("memory" :> m.val)

\* run_store::<i32>
run_store(ctx, offset, mem) ==
    LET stack_value == pop_as(ctx, "I32") IN
    IF stack_value.err # "none" THEN stack_value
    ELSE store_bytes(stack_value.ctx, offset, mem,
                     into_little_endian(stack_value.outcome, 4))

\* a narrow store that writes the whole word
run_store_wrap_unwrapped(ctx, offset, mem) ==
    LET stack_value == pop_as(ctx, "I32") IN
    IF stack_value.err # "none" THEN stack_value
    ELSE store_bytes(stack_value.ctx, offset, mem,
                     into_little_endian(stack_value.outcome, 4))

\* run_store_wrap::<i32, i8>: wrap_into keeps the low byte
run_store_wrap(ctx, offset, mem) ==
    LET stack_value == pop_as(ctx, "I32") IN
    IF stack_value.err # "none"
    THEN [stack_value EXCEPT !.kind =
             IF @ = TypeMismatch
             THEN "Due to validation value should be of proper type" ELSE @]
    ELSE LET wrapped == ((stack_value.outcome + 128) % 256) - 128 IN
         store_bytes(stack_value.ctx, offset, mem,
                     into_little_endian(wrapped, 1))

run_current_memory(ctx, mem) ==
    push(ctx, I32(mem.current_size), RunNextInstruction)

\* a grow_memory that traps when the memory refuses
run_grow_memory_trapping(ctx, mem, maximum) ==
    LET pages == pop_as(ctx, "I32") IN
    IF pages.err # "none" THEN pages
    ELSE LET grown == memory_grow(mem, maximum, pages.outcome) IN
         IF ~grown.some THEN Err("MemoryAccessOutOfBounds", pages.ctx)
         ELSE push(pages.ctx, I32(grown.val.previous), RunNextInstruction)
              @@ ("memory" :> grown.val.memory)

\* run_grow_memory: u32::MAX, pushed as the i32 -1, when the grow fails
\* a grow_memory that pushes the size after the grow
run_grow_memory_pushing_new_size(ctx, mem, maximum) ==
    LET pages == pop_as(ctx, "I32") IN
    IF pages.err # "none" THEN pages
    ELSE LET grown == memory_grow(mem, maximum, pages.outcome)
             m == IF grown.some THEN grown.val.memory.current_size ELSE -1 IN
         push(pages.ctx, I32(m), RunNextInstruction)
         @@ ("memory" :> IF grown.some THEN grown.val.memory ELSE mem)

run_grow_memory(ctx, mem, maximum) ==
    LET pages == pop_as(ctx, "I32") IN
    IF pages.err # "none" THEN pages
    ELSE LET grown == memory_grow(mem, maximum, pages.outcome)
             m == IF grown.some THEN grown.val.previous ELSE -1 IN
         push(pages.ctx, I32(m), RunNextInstruction)
         @@ ("memory" :> IF grown.some THEN grown.val.memory ELSE mem)

----------------------------------------------------------------------------
(* Calls *)

\* a check of the zipped pairs alone, which stops at the shorter vector
check_function_args_zipped(params, args) ==
    IF \E i \in 1..Len(params) : i <= Len(args) /\ args[i].ty # params[i]
    THEN [err |-> "Function", msg |-> "invalid parameter type"]
    ELSE [err |-> "none"]

\* check_function_args: Ok(()) or an Error::Function
check_function_args(params, args) ==
    IF Len(params) # Len(args)
    THEN [err |-> "Function", msg |-> "not enough arguments"]
    ELSE IF \E i \in 1..Len(params) : args[i].ty # params[i]
    THEN [err |-> "Function", msg |-> "invalid parameter type"]
    ELSE [err |-> "none"]

\* an argument vector left in pop order
prepare_function_args_unreversed(params, ctx) ==
    LET n == Len(params)
        h == Len(ctx.value_stack) IN
    IF h < n THEN Panic(StackEmpty, [ctx EXCEPT !.value_stack = <<>>])
    ELSE Ok([ctx EXCEPT !.value_stack = Prefix(ctx.value_stack, h - n)],
            [i \in 1..n |-> ctx.value_stack[h + 1 - i]])

\* prepare_function_args: pops one value per parameter and reverses them.
\* Gives the caller's frame after the pops and the argument vector.
prepare_function_args(params, ctx) ==
    LET n == Len(params)
        h == Len(ctx.value_stack) IN
    IF h < n THEN Panic(StackEmpty, [ctx EXCEPT !.value_stack = <<>>])
    ELSE LET popped == [i \in 1..n |-> ctx.value_stack[h + 1 - i]]
             args == Reverse(popped)
             rest == [ctx EXCEPT !.value_stack = Prefix(ctx.value_stack, h - n)]
         IN IF check_function_args(params, args).err = "none"
            THEN Ok(rest, args)
            ELSE Panic("Due to validation arguments should match", rest)

\* a callee frame that is given its caller's whole limit
nested_with_callers_limit(ctx, function, fs) ==
    LET prepared == prepare_function_args(fs[function + 1].params, ctx) IN
    IF prepared.err # "none" THEN prepared
    ELSE Ok(prepared.ctx,
            [is_initialized |-> FALSE,
             function |-> function,
             return_type |-> fs[function + 1].ret,
             value_stack |-> <<>>,
             limit |-> prepared.ctx.limit,
             locals |-> prepared.outcome,
             position |-> 0])

\* FunctionContext::nested: the caller after the call and the callee's frame
\* a nested frame whose caller is left with an empty value stack
nested_emptying_the_caller(ctx, function, fs) ==
    IF fs[function + 1].kind = "Host"
    THEN Panic("Host functions can't be called as internally defined functions",
               ctx)
    ELSE LET prepared == prepare_function_args(fs[function + 1].params, ctx) IN
         IF prepared.err # "none" THEN prepared
         ELSE Ok([prepared.ctx EXCEPT !.value_stack = <<>>],
                 [is_initialized |-> FALSE,
                  function |-> function,
                  return_type |-> fs[function + 1].ret,
                  value_stack |-> <<>>,
                  limit |-> prepared.ctx.limit - Len(prepared.ctx.value_stack),
                  locals |-> prepared.outcome,
                  position |-> 0])

nested(ctx, function, fs) ==
    IF fs[function + 1].kind = "Host"
    THEN Panic("Host functions can't be called as internally defined functions",
               ctx)
    ELSE LET prepared == prepare_function_args(fs[function + 1].params, ctx) IN
         IF prepared.err # "none" THEN prepared
         ELSE Ok(prepared.ctx,
                 [is_initialized |-> FALSE,
                  function |-> function,
                  return_type |-> fs[function + 1].ret,
                  value_stack |-> <<>>,
                  limit |-> prepared.ctx.limit - Len(prepared.ctx.value_stack),
                  locals |-> prepared.outcome,
                  position |-> 0])

\* What Externals may answer to a host call: a trap, no value, or a value
HostTrap == [trap |-> TRUE, kind |-> "Host"]
HostOk(opt) == [trap |-> FALSE, val |-> opt]
HostReturns ==
    {HostTrap, HostOk(None)}
    \cup {HostOk(Some(I32(v))) : v \in HostVals}
    \cup {HostOk(Some(I64(<<0, v>>))) : v \in HostVals}

----------------------------------------------------------------------------
(* do_run_function and run_interpreter_loop.  Each operator gives the      *)
(* interpreter state after the step as a record over the state variables   *)
(* (function_stack, function_context, status, result, trap), with the      *)
(* name of the way the step ended.                                         *)

After(fstack, ctx, st, res, tr, how) ==
    [function_stack |-> fstack, function_context |-> ctx, status |-> st,
     result |-> res, trap |-> tr, how |-> how]

Running(fstack, ctx, how) == After(fstack, ctx, "run", None, "none", how)
LoopAgain(fstack, how) == After(fstack, NoContext, "loop", None, "none", how)
Trapped(fstack, ctx, kind) == After(fstack, ctx, "trap", None, kind, "trap")
Panicked(fstack, ctx, msg) == After(fstack, ctx, "panic", None, msg, "panic")
\* an error that only ends the frame it was raised in
Failed_in_frame_only(fstack, r) ==
    IF r.err = "trap" /\ fstack # <<>> THEN LoopAgain(fstack, "trap")
    ELSE IF r.err = "trap" THEN Trapped(fstack, r.ctx, r.kind)
    ELSE Panicked(fstack, r.ctx, r.kind)
\* the `?` on a failed step: the error leaves run_interpreter_loop
Failed(fstack, r) ==
    IF r.err = "trap" THEN Trapped(fstack, r.ctx, r.kind)
    ELSE Panicked(fstack, r.ctx, r.kind)

\* InstructionOutcome::Branch(target) in do_run_function
branch(ctx, target) ==
    LET moved == [ctx EXCEPT !.position = target.dst_pc] IN
    IF target.keep > 1 THEN Panic("assertion failed: target.keep <= 1", moved)
    ELSE IF target.keep = 1 /\ IsEmpty(moved) THEN Panic(StackEmpty, moved)
    ELSE LET kept == IF target.keep = 1 THEN Popped(moved) ELSE moved
             cur_stack_len == Len(kept.value_stack) IN
         IF cur_stack_len < target.drop THEN Panic(Underflow, kept)
         ELSE LET resized ==
                      [kept EXCEPT !.value_stack =
                           Prefix(kept.value_stack, cur_stack_len - target.drop)]
              IN IF target.keep = 1
                 THEN push(resized, Top(moved), "branch")
                 ELSE Ok(resized, "branch")

\* a return that hands the value to nobody but the embedder
loop_return_without_push(fstack, ctx, return_value) ==
    IF fstack # <<>>
    THEN LoopAgain(fstack, "return_caller")
    ELSE After(fstack, ctx, "done", return_value, "none", "return_embedder")

\* RunResult::Return in run_interpreter_loop
\* a return that goes on with the loop when there is no caller
loop_return_going_on_without_caller(fstack, ctx, return_value) ==
    IF fstack # <<>>
    THEN LET caller_context == Back(fstack) IN
         IF return_value.some
         THEN IF StackIsFull(caller_context)
              THEN Trapped(fstack, ctx, "StackOverflow")
              ELSE LoopAgain([fstack EXCEPT ![Len(fstack)] =
                                 Pushed(caller_context, return_value.val)],
                             "return_caller")
         ELSE LoopAgain(fstack, "return_caller")
    ELSE LoopAgain(fstack, "return_embedder")

loop_return(fstack, ctx, return_value) ==
    IF fstack # <<>>
    THEN LET caller_context == Back(fstack) IN
         IF return_value.some
         THEN IF StackIsFull(caller_context)
              THEN Trapped(fstack, ctx, "StackOverflow")
              ELSE LoopAgain([fstack EXCEPT ![Len(fstack)] =
                                 Pushed(caller_context, return_value.val)],
                             "return_caller")
         ELSE LoopAgain(fstack, "return_caller")
    ELSE After(fstack, ctx, "done", return_value, "none", "return_embedder")

\* InstructionOutcome::Return in do_run_function, then the loop's handling
function_return(fstack, ctx) ==
    IF ctx.return_type.some
    THEN IF IsEmpty(ctx) THEN Panicked(fstack, ctx, StackEmpty)
         ELSE loop_return(fstack, Popped(ctx), Some(Top(ctx)))
    ELSE loop_return(fstack, ctx, None)

\* a host call that trusts the type of the host's value
host_call_unchecked(fstack, ctx, nested_func, fs, host_ret) ==
    LET prepared == prepare_function_args(fs[nested_func + 1].params, ctx) IN
    IF prepared.err # "none" THEN Failed(fstack, prepared)
    ELSE IF host_ret.trap THEN Trapped(fstack, prepared.ctx, host_ret.kind)
    ELSE IF host_ret.val.some
         THEN IF StackIsFull(prepared.ctx)
              THEN Trapped(fstack, prepared.ctx, "StackOverflow")
              ELSE LoopAgain(Append(fstack,
                                    Pushed(prepared.ctx, host_ret.val.val)),
                             "call_host")
    ELSE LoopAgain(Append(fstack, prepared.ctx), "call_host")

\* RunResult::NestedCall for a host function
host_call(fstack, ctx, nested_func, fs, host_ret) ==
    LET prepared == prepare_function_args(fs[nested_func + 1].params, ctx) IN
    IF prepared.err # "none" THEN Failed(fstack, prepared)
    ELSE IF host_ret.trap THEN Trapped(fstack, prepared.ctx, host_ret.kind)
    ELSE IF value_type_of(host_ret.val) # fs[nested_func + 1].ret
         THEN Trapped(fstack, prepared.ctx, "UnexpectedSignature")
    ELSE IF host_ret.val.some
         THEN IF StackIsFull(prepared.ctx)
              THEN Trapped(fstack, prepared.ctx, "StackOverflow")
              ELSE LoopAgain(Append(fstack,
                                    Pushed(prepared.ctx, host_ret.val.val)),
                             "call_host")
    ELSE LoopAgain(Append(fstack, prepared.ctx), "call_host")

\* a nested call that gives a host function a frame of its own
nested_call_framing_host(fstack, ctx, nested_func, fs, host_ret) ==
    LET prepared == prepare_function_args(fs[nested_func + 1].params, ctx) IN
    IF prepared.err # "none" THEN Failed(fstack, prepared)
    ELSE LoopAgain(Append(Append(fstack, prepared.ctx),
                          FunctionContextNew(nested_func,
                              prepared.ctx.limit
                                  - Len(prepared.ctx.value_stack),
                              fs[nested_func + 1].ret, prepared.outcome)),
                   "call_internal")

\* RunResult::NestedCall in run_interpreter_loop
nested_call(fstack, ctx, nested_func, fs, host_ret) ==
    IF fs[nested_func + 1].kind = "Internal"
    THEN LET n == nested(ctx, nested_func, fs) IN
         IF n.err # "none" THEN Failed(fstack, n)
         ELSE LoopAgain(Append(Append(fstack, n.ctx), n.outcome),
                        "call_internal")
    ELSE host_call(fstack, ctx, nested_func, fs, host_ret)

\* One iteration of do_run_function's loop on the result r of
\* run_instruction, followed by the loop's handling of a RunResult
\* a do_run_function that moves the position two forward at a call
do_run_function_skipping_after_call(r, fstack, fs, host_ret) ==
    IF r.err # "none" THEN Failed(fstack, r)
    ELSE IF r.outcome.tag = "RunNextInstruction"
         THEN Running(fstack, [r.ctx EXCEPT !.position = r.ctx.position + 1],
                      "next")
    ELSE IF r.outcome.tag = "Branch"
         THEN LET b == branch(r.ctx, r.outcome.target) IN
              IF b.err # "none" THEN Failed(fstack, b)
              ELSE Running(fstack, b.ctx, "branch")
    ELSE IF r.outcome.tag = "ExecuteCall"
         THEN nested_call(fstack,
                          [r.ctx EXCEPT !.position = r.ctx.position + 2],
                          r.outcome.func, fs, host_ret)
    ELSE function_return(fstack, r.ctx)

do_run_function(r, fstack, fs, host_ret) ==
    IF r.err # "none" THEN Failed(fstack, r)
    ELSE IF r.outcome.tag = "RunNextInstruction"
         THEN Running(fstack, [r.ctx EXCEPT !.position = r.ctx.position + 1],
                      "next")
    ELSE IF r.outcome.tag = "Branch"
         THEN LET b == branch(r.ctx, r.outcome.target) IN
              IF b.err # "none" THEN Failed(fstack, b)
              ELSE Running(fstack, b.ctx, "branch")
    ELSE IF r.outcome.tag = "ExecuteCall"
         THEN nested_call(fstack,
                          [r.ctx EXCEPT !.position = r.ctx.position + 1],
                          r.outcome.func, fs, host_ret)
    ELSE function_return(fstack, r.ctx)

\* invoke(function, args, externals): the arguments are checked, a host
\* function is called through Externals at once, and an internal function
\* is handed to start_execution
invoke(func, args, fs, host_ret) ==
    IF check_function_args(fs[func + 1].params, args).err # "none"
    THEN After(<< >>, NoContext, "error", None, "Function", "error")
    ELSE IF fs[func + 1].kind = "Host"
    THEN IF host_ret.trap
         THEN Trapped(<< >>, NoContext, host_ret.kind)
         ELSE IF value_type_of(host_ret.val) # fs[func + 1].ret
         THEN Trapped(<< >>, NoContext, "UnexpectedSignature")
         ELSE After(<< >>, NoContext, "done", host_ret.val, "none",
                    "return_embedder")
    ELSE LoopAgain(<< FunctionContextNew(func, DEFAULT_VALUE_STACK_LIMIT,
                                         fs[func + 1].ret, args) >>,
                   "start")

----------------------------------------------------------------------------
(* Module validation: the limits of tables and memories *)

\* a validation that takes a maximum equal to the minimum for a violation
validate_module_below_maximum(m) ==
    /\ Len(m.tables) <= 1
    /\ Len(m.memories) <= 1
    /\ \A i \in DOMAIN (m.tables \o m.memories) :
          LET l == (m.tables \o m.memories)[i].limits IN
          l.maximum.some => l.initial < l.maximum.val

\* a validation that counts only the tables and memories the module defines
validate_module_counting_defined(m) ==
    /\ Len(SelectSeq(m.tables, LAMBDA t : ~t.imported)) <= 1
    /\ Len(SelectSeq(m.memories, LAMBDA t : ~t.imported)) <= 1
    /\ \A i \in DOMAIN (m.tables \o m.memories) :
          LET l == (m.tables \o m.memories)[i].limits IN
          l.maximum.some => l.initial <= l.maximum.val
    /\ LET imports == SelectSeq(m.globals, LAMBDA g : g.imported) IN
       \A i \in DOMAIN m.globals :
          LET g == m.globals[i]
              code == g.init IN
          ~g.imported =>
            /\ Len(code) = 2
            /\ \/ /\ code[1].op = "I32Const"
                  /\ g.value_type = "I32"
               \/ /\ code[1].op = "I64Const"
                  /\ g.value_type = "I64"
               \/ /\ code[1].op = "GetGlobal"
                  /\ code[1].operand < Len(imports)
                  /\ ~imports[code[1].operand + 1].mutable
                  /\ imports[code[1].operand + 1].value_type = g.value_type
            /\ code[2].op = "End"

\* a validation that lets get_global refer to any global before the one
\* being initialized, the module's own ones included
validate_module_any_earlier_global(m) ==
    /\ Len(m.tables) <= 1
    /\ Len(m.memories) <= 1
    /\ \A i \in DOMAIN (m.tables \o m.memories) :
          LET l == (m.tables \o m.memories)[i].limits IN
          l.maximum.some => l.initial <= l.maximum.val
    /\ \A i \in DOMAIN m.globals :
          LET g == m.globals[i]
              code == g.init
              imports == SubSeq(m.globals, 1, i - 1) IN
          ~g.imported =>
            /\ Len(code) = 2
            /\ \/ /\ code[1].op = "I32Const"
                  /\ g.value_type = "I32"
               \/ /\ code[1].op = "I64Const"
                  /\ g.value_type = "I64"
               \/ /\ code[1].op = "GetGlobal"
                  /\ code[1].operand < Len(imports)
                  /\ ~imports[code[1].operand + 1].mutable
                  /\ imports[code[1].operand + 1].value_type = g.value_type
            /\ code[2].op = "End"

\* validate_module, as far as limits and global init expressions go: Ok
\* (TRUE) when the module has at most one table and one memory, imported
\* ones included, each has no maximum or a minimum that is not above it,
\* and every global's init expression is a constant expression of its type
validate_module(m) ==
    /\ Len(m.tables) <= 1
    /\ Len(m.memories) <= 1
    /\ \A i \in DOMAIN (m.tables \o m.memories) :
          LET l == (m.tables \o m.memories)[i].limits IN
          l.maximum.some => l.initial <= l.maximum.val
    \* the init expression of every defined global: two opcodes, a constant
    \* or a get_global of an imported immutable global and then End, of the
    \* declared type
    /\ LET imports == SelectSeq(m.globals, LAMBDA g : g.imported) IN
       \A i \in DOMAIN m.globals :
          LET g == m.globals[i]
              code == g.init IN
          ~g.imported =>
            /\ Len(code) = 2
            /\ \/ /\ code[1].op = "I32Const"
                  /\ g.value_type = "I32"
               \/ /\ code[1].op = "I64Const"
                  /\ g.value_type = "I64"
               \/ /\ code[1].op = "GetGlobal"
                  /\ code[1].operand < Len(imports)
                  /\ ~imports[code[1].operand + 1].mutable
                  /\ imports[code[1].operand + 1].value_type = g.value_type
            /\ code[2].op = "End"

----------------------------------------------------------------------------
(* The state machine *)

NoHost == HostOk(None)

\* op, instr: the opcode executed; outcome: what run_instruction returned
\* for it; how: the way the step ended; host_ret: the host's answer
History(op, instr, outcome, how, host_ret) ==
    [op |-> op, instr |-> instr, outcome |-> outcome, how |-> how,
     host_ret |-> host_ret]

NoOutcome == [tag |-> "none"]

\* values of the entry function's parameters (all of them i32 here)
ArgsOf(params) == [1..Len(params) -> {I32(v) : v \in ArgVals}]

\* Interpreter::start_execution up to the call of run_interpreter_loop
StartExecution(id) ==
    LET m == ModuleOf(id) IN
    \E args \in ArgsOf(m.funcs[m.entry + 1].params) :
        /\ module = id
        /\ function_stack =
               << FunctionContextNew(m.entry, DEFAULT_VALUE_STACK_LIMIT,
                                     m.funcs[m.entry + 1].ret, args) >>
        /\ function_context = NoContext
        /\ status = "loop"
        /\ result = None
        /\ trap = "none"
        /\ memory = InitialMemory(m)
        /\ globals = IF "global_values" \in DOMAIN m THEN m.global_values
                     ELSE << >>
        /\ invocation = [func |-> m.entry, args |-> args]
        /\ last = History("start", Unreachable, NoOutcome,
                          "start", NoHost)

\* the entry function of deep_stack has DeepTail constants left to push
\* before its calls
DeepTail == 120

\* The invocation of deep_stack once its entry function has pushed all but
\* DeepTail of its constants: the state StartExecution(deep_stack) reaches
\* by PopFrame and that many RunI32Const steps.
DeepExecution ==
    LET m == ModuleOf(ModuleId("deep_stack", 0))
        filled == DEFAULT_VALUE_STACK_LIMIT - 1 - DeepTail IN
    /\ module = ModuleId("deep_stack", 0)
    /\ function_stack = << >>
    /\ function_context =
           [initialize(FunctionContextNew(m.entry, DEFAULT_VALUE_STACK_LIMIT,
                                          m.funcs[m.entry + 1].ret, << >>),
                       m.funcs[m.entry + 1].locals)
               EXCEPT !.value_stack = [i \in 1..filled |-> I32(0)],
                      !.position = filled]
    /\ status = "run"
    /\ result = None
    /\ trap = "none"
    /\ memory = InitialMemory(m)
    /\ globals = << >>
    /\ invocation = [func |-> m.entry, args |-> << >>]
    /\ last = History("I32Const", I32Const(0), RunNextInstruction, "next",
                      NoHost)

\* An invocation of one of the small modules from its start, or the
\* invocation of deep_stack from the point where its stack is nearly full.
Init ==
    \/ \E id \in ModuleRefs : StartExecution(id)
    \/ DeepExecution
    \* the embedder asks for a function of invoke_targets with up to three
    \* arguments of any types
    \/ \E func \in 0..2, n \in 0..3 :
         \E args \in [1..n -> {I32(v) : v \in ArgVals}
                                \cup {I64(<<0, v>>) : v \in ArgVals}] :
           /\ module = ModuleId("invoke_targets", 0)
           /\ function_stack = << >>
           /\ function_context = NoContext
           /\ status = "invoke"
           /\ result = None
           /\ trap = "none"
           /\ memory = InitialMemory(invoke_targets)
           /\ globals = << >>
           /\ invocation = [func |-> func, args |-> args]
           /\ last = History("start", Unreachable, NoOutcome, "start", NoHost)
    \* a module with tables, memories or globals is given to
    \* validate_module
    \/ \E id \in
          {[name |-> "limits", k |-> 0, operands |-> <<kind, min, max>>] :
              kind \in {"defined table", "imported table",
                        "defined memory", "imported memory"},
              min \in {0, 9, 10, 11},
              max \in {None} \cup {Some(x) : x \in {0, 9, 10, 11}}}
          \cup
          {[name |-> "module_limits", k |-> 0, operands |-> o] :
              o \in (0..2) \X (0..2) \X (0..2) \X (0..2)}
          \cup
          {[name |-> "globals", k |-> 0,
            operands |-> <<import, defined, ty, init>>] :
              import \in {"none", "i32", "mut i32", "i64"},
              defined \in BOOLEAN,
              ty \in {"I32", "I64"},
              init \in
                {<< I32Const(42), Instruction("End", 0) >>,
                 << Instruction("I64Const", I64(<<0, 42>>)),
                    Instruction("End", 0) >>,
                 << Instruction("GetGlobal", 0), Instruction("End", 0) >>,
                 << Instruction("GetGlobal", 1), Instruction("End", 0) >>,
                 << I32Const(42) >>,
                 << Instruction("End", 0) >>,
                 << >>,
                 << Unreachable, Instruction("End", 0) >>,
                 << I32Const(42), Drop >>,
                 << I32Const(42), I32Const(42), Instruction("End", 0) >>}} :
           /\ module = id
           /\ function_stack = << >>
           /\ function_context = NoContext
           /\ status = "validate"
           /\ result = None
           /\ trap = "none"
           /\ memory = [current_size |-> 0, bytes |-> << >>]
           /\ globals = << >>
           /\ invocation = [func |-> 0, args |-> << >>]
           /\ last = History("start", Unreachable, NoOutcome, "start", NoHost)

Set(a, h) ==
    /\ function_stack' = a.function_stack
    /\ function_context' = a.function_context
    /\ status' = a.status
    /\ result' = a.result
    /\ trap' = a.trap
    /\ last' = h
    /\ UNCHANGED <<module, invocation>>

\* a loop head that initializes every frame it pops
loop_head_initializing_again(fstack, fs) ==
    IF fstack = <<>>
    THEN Panicked(fstack, NoContext, "on loop entry - not empty")
    ELSE LET ctx == Back(fstack) IN
         IF fs[ctx.function + 1].kind = "Host"
         THEN Panicked(Front(fstack), ctx,
                       "Internal functions always have a body")
         ELSE Running(Front(fstack),
                      initialize(ctx, fs[ctx.function + 1].locals),
                      "pop_frame")

\* the head of run_interpreter_loop's loop: pop_back, body(), initialize
loop_head(fstack, fs) ==
    IF fstack = <<>>
    THEN Panicked(fstack, NoContext, "on loop entry - not empty")
    ELSE LET ctx == Back(fstack) IN
         IF fs[ctx.function + 1].kind = "Host"
         THEN Panicked(Front(fstack), ctx,
                       "Internal functions always have a body")
         ELSE Running(Front(fstack),
                      IF ctx.is_initialized THEN ctx
                      ELSE initialize(ctx, fs[ctx.function + 1].locals),
                      "pop_frame")

PopFrame ==
    /\ status = "loop"
    /\ Set(loop_head(function_stack, funcs),
           History("pop_frame", Unreachable, NoOutcome, "pop_frame", NoHost))
    /\ UNCHANGED <<memory, globals>>

Code == funcs[function_context.function + 1].code
Instr == Code[function_context.position + 1]

At(op) ==
    /\ status = "run"
    /\ function_context.position + 1 \in DOMAIN Code
    /\ Instr.op = op

\* the rest of the loop body after run_instruction gave r; an opcode that
\* wrote to the memory gives the memory it left in r.memory
\* a step whose trap restores the memory and the globals the invocation
\* started with
Step_rolling_back(r, host_ret) ==
    LET a == do_run_function(r, function_stack, funcs, host_ret)
        m == ModuleOf(module) IN
    /\ Set(a, History(Instr.op, Instr,
                      IF r.err = "none" THEN r.outcome ELSE NoOutcome,
                      a.how, host_ret))
    /\ memory' = IF a.status = "trap" THEN InitialMemory(m)
                 ELSE IF "memory" \in DOMAIN r THEN r.memory ELSE memory
    /\ globals' = IF a.status = "trap" /\ "global_values" \in DOMAIN m
                  THEN m.global_values
                  ELSE IF "globals" \in DOMAIN r THEN r.globals ELSE globals

Step(r, host_ret) ==
    LET a == do_run_function(r, function_stack, funcs, host_ret) IN
    /\ Set(a, History(Instr.op, Instr,
                      IF r.err = "none" THEN r.outcome ELSE NoOutcome,
                      a.how, host_ret))
    /\ memory' = IF "memory" \in DOMAIN r THEN r.memory ELSE memory
    /\ globals' = IF "globals" \in DOMAIN r THEN r.globals ELSE globals

RunUnreachable == At("Unreachable") /\ Step(run_unreachable(function_context), NoHost)

RunBr == At("Br") /\ Step(run_br(function_context, Instr.target), NoHost)

RunBrIfEqz == At("BrIfEqz") /\ Step(run_br_eqz(function_context, Instr.target), NoHost)

RunBrIfNez == At("BrIfNez") /\ Step(run_br_nez(function_context, Instr.target), NoHost)

RunBrTable == At("BrTable") /\ Step(run_br_table(function_context, Instr.table), NoHost)

RunReturn == At("Return") /\ Step(run_return(function_context), NoHost)

RunCall ==
    /\ At("Call")
    /\ Len(function_stack) < MaxFrames
    /\ \E host_ret \in IF /\ Instr.index + 1 \in DOMAIN funcs
                           /\ funcs[Instr.index + 1].kind = "Host"
                        THEN HostReturns
                        ELSE {NoHost} :
        Step(run_call(function_context, Instr.index, funcs), host_ret)

RunDrop == At("Drop") /\ Step(run_drop(function_context), NoHost)

RunGetLocal == At("GetLocal") /\ Step(run_get_local(function_context, Instr.depth), NoHost)

RunSetLocal == At("SetLocal") /\ Step(run_set_local(function_context, Instr.depth), NoHost)

RunI32Const == At("I32Const") /\ Step(run_const(function_context, I32(Instr.val)), NoHost)

RunI32Add == At("I32Add") /\ Step(run_add(function_context), NoHost)

Next ==
    \/ /\ status = "invoke"
       /\ \E host_ret \in IF funcs[invocation.func + 1].kind = "Host"
                          THEN HostReturns
                          ELSE {NoHost} :
            Set(invoke(invocation.func, invocation.args, funcs, host_ret),
                History("invoke", Unreachable,
                        NoOutcome
                        @@ check_function_args(
                               funcs[invocation.func + 1].params,
                               invocation.args),
                        "invoke", host_ret))
       /\ UNCHANGED <<memory, globals>>
    \/ /\ status = "validate"
       /\ Set(IF validate_module(ModuleOf(module))
              THEN After(<< >>, NoContext, "validated", None, "none",
                         "validate")
              ELSE After(<< >>, NoContext, "error", None, "Validation",
                         "error"),
              History("validate_module", Unreachable, NoOutcome, "validate",
                      NoHost))
       /\ UNCHANGED <<memory, globals>>
    \/ PopFrame
    \/ RunUnreachable
    \/ RunBr
    \/ RunBrIfEqz
    \/ RunBrIfNez
    \/ RunBrTable
    \/ RunReturn
    \/ RunCall
    \/ RunDrop
    \/ RunGetLocal
    \/ RunSetLocal
    \/ RunI32Const
    \/ RunI32Add
    \/ /\ At("CallIndirect")
       /\ LET r == run_call_indirect(function_context, Instr.operand,
                                     ModuleOf(module)) IN
          \E host_ret \in IF /\ r.err = "none"
                             /\ funcs[r.outcome.func + 1].kind = "Host"
                          THEN HostReturns
                          ELSE {NoHost} :
              Step(r, host_ret)
    \/ At("Select") /\ Step(run_select(function_context), NoHost)
    \/ At("TeeLocal")
         /\ Step(IF IsEmpty(function_context)
                 THEN Panic(StackEmpty, function_context)
                 ELSE IF Instr.operand + 1 \notin DOMAIN function_context.locals
                 THEN Panic(NoLocal, function_context)
                 ELSE Ok([function_context EXCEPT
                            !.locals[Instr.operand + 1] = Top(function_context)],
                         RunNextInstruction),
                 NoHost)
    \/ At("I64Const")
         /\ Step(run_const(function_context, I64(Instr.operand)), NoHost)
    \/ At("I32DivS") /\ Step(run_div(function_context, "I32", TRUE), NoHost)
    \/ At("I32DivU") /\ Step(run_div(function_context, "I32", FALSE), NoHost)
    \/ At("I32RemS") /\ Step(run_rem(function_context, "I32", TRUE), NoHost)
    \/ At("I32RemU") /\ Step(run_rem(function_context, "I32", FALSE), NoHost)
    \/ At("I32Shl") /\ Step(run_shl(function_context, "I32", 31), NoHost)
    \/ At("I32ShrS")
         /\ Step(run_shr(function_context, "I32", 31, TRUE), NoHost)
    \/ At("I32ShrU")
         /\ Step(run_shr(function_context, "I32", 31, FALSE), NoHost)
    \/ At("I64DivS") /\ Step(run_div(function_context, "I64", TRUE), NoHost)
    \/ At("I64DivU") /\ Step(run_div(function_context, "I64", FALSE), NoHost)
    \/ At("I64RemS") /\ Step(run_rem(function_context, "I64", TRUE), NoHost)
    \/ At("I64RemU") /\ Step(run_rem(function_context, "I64", FALSE), NoHost)
    \/ At("I64Shl") /\ Step(run_shl(function_context, "I64", 63), NoHost)
    \/ At("I64ShrS")
         /\ Step(run_shr(function_context, "I64", 63, TRUE), NoHost)
    \/ At("I64ShrU")
         /\ Step(run_shr(function_context, "I64", 63, FALSE), NoHost)
    \/ At("I32Load")
         /\ Step(run_load(function_context, Instr.operand, memory), NoHost)
    \/ At("I32Store")
         /\ Step(run_store(function_context, Instr.operand, memory), NoHost)
    \/ At("I32Store8")
         /\ Step(run_store_wrap(function_context, Instr.operand, memory),
                 NoHost)
    \/ At("SetGlobal")
         /\ Step(run_set_global(function_context, Instr.operand, globals),
                 NoHost)
    \/ At("CurrentMemory")
         /\ Step(run_current_memory(function_context, memory), NoHost)
    \/ At("GrowMemory")
         /\ Step(run_grow_memory(function_context, memory,
                                 ModuleOf(module).memory.maximum), NoHost)

Spec == Init /\ [][Next]_vars

----------------------------------------------------------------------------
(* Properties.  Those about one step of the interpreter are action         *)
(* formulas: unprimed variables are the state before the opcode, primed    *)
(* ones the state after it, and last' names the opcode that was executed.  *)

\* the frame's value stack before the step
PreStack == function_context.value_stack

\* the value stack when a branch is applied: a conditional branch and a
\* br_table have popped their operand by then
StackAtBranch == IF Instr.op = "Br" THEN PreStack ELSE Front(PreStack)

\* the function a frame runs
FuncOf(ctx) == funcs[ctx.function + 1]

\* C1: after a taken Br, BrIfEqz, BrIfNez or BrTable the frame's value
\* stack is the part of the stack below the target control frame's floor,
\* followed by the value that was on top when the frame carries a result.
C1_BranchLandsOnFloor ==
    [][ last'.outcome.tag = "Branch" =>
          /\ status' = "run"
          /\ function_context'.value_stack =
                 Prefix(StackAtBranch, last'.outcome.target.fl)
                 \o (IF last'.outcome.target.res
                     THEN << Back(StackAtBranch) >> ELSE << >>) ]_vars

\* C2: at every position the interpreter reaches outside unreachable
\* regions the value stack has the height the compiler computed for that
\* position, and the stack never runs out of values.
C2_StackDiscipline ==
    /\ (status = "run" /\ function_context.position + 1 \in DOMAIN Code) =>
           LET h == FuncOf(function_context)
                        .heights[function_context.position + 1]
           IN h >= 0 => Len(function_context.value_stack) = h
    /\ status = "panic" => trap \notin {StackEmpty, Underflow}

\* C3: the depth operand of GetLocal/SetLocal resolves to a local of the
\* frame, and the compiled `(param i32) (result i32) get_local 0`,
\* [GetLocal(1), Return], returns its argument.
C3_LocalsResolve ==
    /\ status = "panic" => trap # NoLocal
    /\ (module.name = "get_local" /\ status \in {"done", "trap", "panic"}) =>
           /\ status = "done"
           /\ result = Some(function_context.locals[1])

\* C4: a taken branch with target (dst_pc, drop, keep) leaves the frame at
\* dst_pc with the stack shortened by drop entries below the kept value:
\* the new height is the old height minus drop.
C4_BranchMechanics ==
    [][ last'.outcome.tag = "Branch" =>
          LET t == last'.outcome.target
              n == Len(StackAtBranch) IN
          /\ status' = "run"
          /\ function_context'.position = t.dst_pc
          /\ function_context'.value_stack =
                 Prefix(StackAtBranch, n - t.drop - t.keep)
                 \o (IF t.keep = 1 THEN << Back(StackAtBranch) >> ELSE << >>)
          /\ Len(function_context'.value_stack) = n - t.drop ]_vars

\* C5: BrTable with n >= 1 targets branches to table[index] when the
\* popped index, read as unsigned, is below n - 1 and to the last entry
\* otherwise; it never fails on the table access.
C5_BrTableSelects ==
    [][ last'.op = "BrTable" =>
          LET table == last'.instr.table
              n == Len(table)
              index == Back(PreStack).v
              expected == IF index >= 0 /\ index < n - 1
                          THEN table[index + 1] ELSE table[n]
          IN /\ n >= 1
             /\ last'.outcome = Branch(expected)
             /\ status' = "run"
             /\ function_context'.position = expected.dst_pc ]_vars

\* C5 witness: the index equals n - 1 and the last entry was taken
C5_Witness ==
    /\ last.op = "BrTable"
    /\ module.k = Len(last.instr.table) - 1
    /\ status = "run"
    /\ function_context.position = 5

\* C6: a return with a caller frame pushes the returned value (if the
\* function has a result) onto the caller's stack and the caller resumes
\* right after its call instruction; a return with no caller hands the
\* value (or none) to the embedder and ends the loop.
C6_ReturnResumesCaller ==
    [][ /\ (last'.op = "Return" /\ status' # "panic"
              /\ function_stack # << >>) =>
               LET caller == Back(function_stack) IN
               /\ status' = "loop"
               /\ function_stack' =
                      [function_stack EXCEPT ![Len(function_stack)] =
                          [caller EXCEPT !.value_stack =
                              IF FuncOf(function_context).ret.some
                              THEN Append(@, Back(PreStack)) ELSE @]]
               /\ FuncOf(caller).code[(caller.position - 1) + 1].op
                      \in {"Call", "CallIndirect"}
        /\ (last'.op = "pop_frame" /\ status' = "run"
              /\ Back(function_stack).is_initialized) =>
               function_context' = Back(function_stack)
        /\ (last'.op = "Return" /\ status' # "panic"
              /\ function_stack = << >>) =>
               /\ status' = "done"
               /\ result' = IF FuncOf(function_context).ret.some
                            THEN Some(Back(PreStack)) ELSE None
        /\ status # "done" ]_vars

\* C6 witness: a callee with a result has returned to its caller, and the
\* caller has been resumed after its call with the value on its stack
C6_Witness ==
    /\ last.op = "pop_frame"
    /\ status = "run"
    /\ function_context.position = 4
    /\ function_context.value_stack = << I32(5), I32(7) >>

\* C7: a nested call to an internal function with k parameters removes
\* exactly the top k values from the caller's stack; they are the callee's
\* locals 0..k-1 in push order, and the callee starts at position 0 with an
\* empty value stack.
C7_NestedCallArguments ==
    [][ (last'.op = "Call"
           /\ funcs[last'.instr.index + 1].kind = "Internal") =>
          LET k == Len(funcs[last'.instr.index + 1].params)
              h == Len(PreStack)
              callee == Back(function_stack') IN
          /\ status' = "loop"
          /\ Len(function_stack') = Len(function_stack) + 2
          /\ function_stack'[Len(function_stack') - 1].value_stack
                 = Prefix(PreStack, h - k)
          /\ callee.function = last'.instr.index
          /\ callee.locals = SubSeq(PreStack, h - k + 1, h)
          /\ callee.position = 0
          /\ callee.value_stack = << >> ]_vars

\* C7 witness: a two-parameter callee got two different arguments
C7_Witness ==
    /\ last.op = "Call"
    /\ status = "loop"
    /\ Len(function_stack) = 2
    /\ Back(function_stack).locals = << I32(1), I32(7) >>
    /\ function_stack[1].value_stack = << I32(5) >>

\* C8: a nested call to a host function pops the arguments from the
\* current frame and pushes the host's value onto that frame's stack only
\* when its type (or absence) equals the signature's return type;
\* otherwise the invocation ends with UnexpectedSignature and nothing is
\* pushed.
C8_HostCall ==
    [][ (last'.op = "Call" /\ funcs[last'.instr.index + 1].kind = "Host"
           /\ status' # "panic" /\ ~last'.host_ret.trap) =>
          LET sig == funcs[last'.instr.index + 1]
              rest == Prefix(PreStack, Len(PreStack) - Len(sig.params))
              ret == last'.host_ret.val IN
          IF value_type_of(ret) = sig.ret
          THEN \/ /\ status' = "loop"
                  /\ Front(function_stack') = function_stack
                  /\ Back(function_stack').position
                         = function_context.position + 1
                  /\ Back(function_stack').value_stack =
                         IF ret.some THEN Append(rest, ret.val) ELSE rest
               \/ /\ status' = "trap"
                  /\ trap' = "StackOverflow"
                  /\ ret.some
                  /\ Len(rest) >= function_context.limit
          ELSE /\ status' = "trap"
               /\ trap' = "UnexpectedSignature"
               /\ function_stack' = function_stack
               /\ function_context'.value_stack = rest ]_vars

\* C8 witness: the host answered an i64 where the signature says i32
C8_Witness ==
    /\ last.op = "Call"
    /\ last.host_ret = HostOk(Some(I64(<<0, 0>>)))
    /\ status = "trap"
    /\ trap = "UnexpectedSignature"

\* C9: a trap raised by an opcode, by a push or by a host function ends
\* the invocation at once with that trap: no step follows it, the frame
\* stack is left as it was (no caller is resumed) and no value is
\* returned.
C9_TrapEndsInvocation ==
    [][ /\ status # "trap"
        /\ status' = "trap" =>
               /\ result' = None
               /\ function_stack' = function_stack
        /\ last'.op = "Unreachable" =>
               status' = "trap" /\ trap' = "Unreachable"
        /\ (last'.op = "Call" /\ last'.host_ret.trap /\ status' # "panic") =>
               status' = "trap" /\ trap' = last'.host_ret.kind
        /\ (last'.op = "I32Const"
              /\ Len(PreStack) >= function_context.limit) =>
               status' = "trap" /\ trap' = "StackOverflow" ]_vars

\* C9 witness: a callee trapped while its caller was waiting
C9_Witness ==
    /\ status = "trap"
    /\ trap = "Unreachable"
    /\ function_stack # << >>
    /\ result = None

\* every frame of the invocation, suspended or running
Frames ==
    IF function_context = NoContext
    THEN function_stack
    ELSE Append(function_stack, function_context)

\* C10: no frame's value stack is longer than the frame's limit, the
\* first frame's limit is 16384, and a push onto a stack at its limit (by
\* an opcode, of a value a host function returned, or of a callee's return
\* value onto its caller) traps StackOverflow and leaves the stack as it
\* is.
C10_StackWithinLimit ==
    [][ /\ \A i \in DOMAIN Frames' :
               Len(Frames'[i].value_stack) <= Frames'[i].limit
        /\ Frames' # << >> => Frames'[1].limit = DEFAULT_VALUE_STACK_LIMIT
        /\ (last'.op = "I32Const"
              /\ Len(PreStack) >= function_context.limit) =>
               /\ status' = "trap"
               /\ trap' = "StackOverflow"
               /\ function_context'.value_stack = PreStack
        /\ (last'.op = "Call" /\ status' # "panic"
              /\ funcs[last'.instr.index + 1].kind = "Host"
              /\ ~last'.host_ret.trap
              /\ last'.host_ret.val.some
              /\ value_type_of(last'.host_ret.val)
                     = funcs[last'.instr.index + 1].ret
              /\ Len(PreStack) - Len(funcs[last'.instr.index + 1].params)
                     >= function_context.limit) =>
               /\ status' = "trap"
               /\ trap' = "StackOverflow"
               /\ Len(function_context'.value_stack) = function_context.limit
        /\ (last'.op = "Return" /\ status' # "panic"
              /\ function_stack # << >>
              /\ FuncOf(function_context).ret.some
              /\ Len(Back(function_stack).value_stack)
                     >= Back(function_stack).limit) =>
               /\ status' = "trap"
               /\ trap' = "StackOverflow"
               /\ function_stack' = function_stack ]_vars

\* C10 witness: the host's value found the first frame's stack at 16384
C10_Witness ==
    /\ status = "trap"
    /\ trap = "StackOverflow"
    /\ last.op = "Call"
    /\ function_stack = << >>
    /\ Len(function_context.value_stack) = DEFAULT_VALUE_STACK_LIMIT

\* C11: the frame made for a nested call has the limit its caller has
\* left (the caller's limit minus the caller's height once the arguments
\* are popped), and the heights of all frames of the invocation together
\* never exceed the first frame's limit of 16384.
C11_NestedLimit ==
    [][ /\ (last'.op = "Call" /\ status' = "loop"
              /\ funcs[last'.instr.index + 1].kind = "Internal") =>
               LET caller == function_stack'[Len(function_stack') - 1]
                   callee == Back(function_stack') IN
               /\ caller.limit = function_context.limit
               /\ callee.limit = caller.limit - Len(caller.value_stack)
        /\ LET F == Frames'
               Height[i \in 0..Len(F)] ==
                   IF i = 0 THEN 0
                   ELSE Height[i - 1] + Len(F[i].value_stack)
           IN Height[Len(F)] <= DEFAULT_VALUE_STACK_LIMIT ]_vars

\* C11 witness: a frame two calls deep, whose limit is what the two
\* callers above it left
C11_Witness ==
    /\ Len(function_stack) = 2
    /\ status = "run"
    /\ function_stack[1].value_stack = << I32(5) >>
    /\ function_stack[2].value_stack = << I32(1), I32(2) >>
    /\ function_context.limit = DEFAULT_VALUE_STACK_LIMIT - 3
    /\ function_context.value_stack = << I32(9) >>

\* The memory access an instruction makes on the stack before it: the
\* size in bytes, and the sum of the unsigned base and offset in 16-bit
\* halves (low is below 65536 and high is 65536 or more exactly when the
\* sum does not fit 32 bits).
MemoryAccess(instr, stack) ==
    LET base == IF instr.op = "I32Load" THEN stack[Len(stack)].v
                ELSE stack[Len(stack) - 1].v
        Hi(x) == (x \div 65536) % 65536
        Lo(x) == x % 65536
        lows == Lo(base) + Lo(instr.operand)
    IN [size |-> IF instr.op = "I32Store8" THEN 1 ELSE 4,
        low |-> lows % 65536,
        high |-> Hi(base) + Hi(instr.operand) + lows \div 65536]

\* C12: a load or store addresses the unsigned 32-bit sum of its base and
\* its offset: an access that succeeds reads or writes the byte at that
\* sum, and when the sum exceeds 2^32 - 1 the opcode traps
\* MemoryAccessOutOfBounds, pushes nothing and leaves the memory as it is.
C12_EffectiveAddress ==
    [][ last'.op \in {"I32Load", "I32Store", "I32Store8"} =>
          LET a == MemoryAccess(last'.instr, PreStack)
              address == a.high * 65536 + a.low
              byte(m) == IF address \in DOMAIN m.bytes
                         THEN m.bytes[address] ELSE 0 IN
          /\ a.high >= 65536 =>
                /\ status' = "trap"
                /\ trap' = "MemoryAccessOutOfBounds"
                /\ memory' = memory
                /\ Len(function_context'.value_stack) < Len(PreStack)
          /\ (status' = "run" /\ last'.op = "I32Load") =>
                /\ a.high < 65536
                /\ Top(function_context').v % 256 = byte(memory)
          /\ (status' = "run" /\ last'.op # "I32Load") =>
                /\ a.high < 65536
                /\ byte(memory') = Top(function_context).v % 256 ]_vars

\* C12 witness: the store at base 0xFFFFFFFF and offset 1 trapped and the
\* word at address 0 is the one written before
C12_Witness ==
    /\ last.op = "I32Store"
    /\ module.operands[2] = -1
    /\ module.operands[3] = 1
    /\ status = "trap"
    /\ trap = "MemoryAccessOutOfBounds"
    /\ memory.bytes[0] = 4

\* C13: a load or store of s bytes at the effective address a traps
\* MemoryAccessOutOfBounds when a + s exceeds the size of the memory in
\* bytes and does not trap otherwise, and a store that traps leaves every
\* byte of the memory as it is.
C13_MemoryBounds ==
    [][ last'.op \in {"I32Load", "I32Store", "I32Store8"} =>
          LET a == MemoryAccess(last'.instr, PreStack)
              within == a.high + (IF a.low + a.size > 65536 THEN 1 ELSE 0)
                            < memory.current_size IN
          /\ (a.high < 65536 /\ ~within) =>
                status' = "trap" /\ trap' = "MemoryAccessOutOfBounds"
          /\ (a.high < 65536 /\ within) => status' = "run"
          /\ status' = "trap" => memory' = memory ]_vars

\* C13 witness: the one-byte store at the last byte of the memory went
\* through and the four-byte load at the same address trapped
C13_Witness ==
    /\ last.op = "I32Load"
    /\ status = "trap"
    /\ trap = "MemoryAccessOutOfBounds"
    /\ module.operands = <<0, 65535, 0, "I32Store8">>
    /\ memory.bytes[65535] = 254

\* C14: an integer division or remainder with a zero divisor traps
\* DivisionByZero, the signed division of the minimum integer by -1 traps
\* InvalidConversionToInt, and both leave the stack without the operands
\* and without a result; every other division or remainder does not trap
\* and puts one value of the operands' type in place of the operands,
\* which for a division is the quotient rounded towards zero.
C14_DivRem ==
    [][ last'.op \in {"I32DivS", "I32DivU", "I32RemS", "I32RemU",
                      "I64DivS", "I64DivU", "I64RemS", "I64RemU"} =>
          LET h == Len(PreStack)
              left == PreStack[h - 1]
              right == PreStack[h]
              wide == left.ty = "I64"
              is(x, n) == IF wide
                          THEN x.v = << IF n < 0 THEN -1 ELSE 0, n >>
                          ELSE x.v = n
              minimum(x) == IF wide THEN x.v = << MinI32, 0 >>
                            ELSE x.v = MinI32
              division == last'.op \in {"I32DivS", "I32DivU",
                                        "I64DivS", "I64DivU"}
              signed == last'.op \in {"I32DivS", "I32RemS",
                                      "I64DivS", "I64RemS"}
              overflow == division /\ signed /\ minimum(left) /\ is(right, -1)
              q == Top(function_context').v
              \* q is the quotient of the i32 a by b, rounded towards zero
              signed_quotient(a, b) ==
                  LET r == a - q * b IN
                  /\ (r = 0) \/ ((r < 0) = (a < 0))
                  /\ IF b > 0 THEN r < b /\ -r < b ELSE b < r /\ b < -r
              \* the quotient of the u32 a by b, as an i32 bit pattern
              unsigned_quotient(a, b) ==
                  IF b < 0 THEN (IF a < 0 /\ a >= b THEN 1 ELSE 0)
                  ELSE IF a >= 0 THEN a \div b
                  ELSE IF b = 1 THEN a
                  ELSE LET half == ((a \div 2) + MaxI32) + 1
                           s == half - (half \div b) * b IN
                       2 * (half \div b)
                       + (IF s >= b - s - (a % 2) THEN 1 ELSE 0)
              \* an i64 that is the i32 in its low word
              small(x) == (x.v[1] = 0 /\ x.v[2] >= 0)
                          \/ (x.v[1] = -1 /\ x.v[2] < 0 /\ x.v[2] # MinI32)
              magnitude(n) == IF n < 0 THEN -n ELSE n
          IN
          /\ is(right, 0) =>
                /\ status' = "trap"
                /\ trap' = "DivisionByZero"
                /\ function_context'.value_stack = Prefix(PreStack, h - 2)
          /\ overflow =>
                /\ status' = "trap"
                /\ trap' = "InvalidConversionToInt"
                /\ function_context'.value_stack = Prefix(PreStack, h - 2)
          /\ (~is(right, 0) /\ ~overflow) =>
                /\ status' = "run"
                /\ function_context'.value_stack
                       = Append(Prefix(PreStack, h - 2),
                                Top(function_context'))
                /\ Top(function_context').ty = left.ty
                /\ (division /\ is(right, 1)) => q = left.v
                /\ (division /\ left = right) => is(Top(function_context'), 1)
                /\ last'.op = "I32DivS" => signed_quotient(left.v, right.v)
                /\ last'.op = "I32DivU" =>
                       q = unsigned_quotient(left.v, right.v)
                /\ (last'.op = "I32RemU" /\ left.v >= 0 /\ right.v > 0) =>
                       q = left.v % right.v
                /\ (last'.op = "I64DivS" /\ small(left) /\ small(right)) =>
                       LET a == left.v[2]
                           b == right.v[2]
                           m == magnitude(a) \div magnitude(b) IN
                       is(Top(function_context'),
                          IF (a < 0) = (b < 0) THEN m ELSE -m)
                /\ (last'.op = "I64DivU" /\ left.v[1] = 0 /\ left.v[2] >= 0
                       /\ right.v[1] = 0 /\ right.v[2] > 0) =>
                       q = << 0, left.v[2] \div right.v[2] >> ]_vars

\* C14 witness: i32.const -2147483648; i32.const -1; i32.div_s trapped
C14_Witness ==
    /\ last.op = "I32DivS"
    /\ module.operands = << "I32DivS", "I32", MinI32, -1 >>
    /\ status = "trap"
    /\ trap = "InvalidConversionToInt"
    /\ function_context.value_stack = << >>

\* C15: shl, shr_s and shr_u shift by the right operand reduced to its
\* low five bits (six for 64 bits), k & 31 (k & 63): bit by bit the
\* result is the left operand moved by that amount, with zeros coming in
\* (copies of the sign bit for shr_s), so the result for k is the result
\* for k & 31 (k & 63).
C15_ShiftMasked ==
    [][ last'.op \in {"I32Shl", "I32ShrS", "I32ShrU",
                      "I64Shl", "I64ShrS", "I64ShrU"} =>
          LET h == Len(PreStack)
              x == PreStack[h - 1]
              k == PreStack[h]
              w == IF x.ty = "I32" THEN 32 ELSE 64
              s == (IF x.ty = "I32" THEN k.v ELSE k.v[2]) % w
              wordbit(n, i) == IF i = 31 THEN (IF n < 0 THEN 1 ELSE 0)
                               ELSE (n \div 2 ^ i) % 2
              bit(val, i) == IF val.ty = "I32" THEN wordbit(val.v, i)
                             ELSE IF i < 32 THEN wordbit(val.v[2], i)
                             ELSE wordbit(val.v[1], i - 32)
              res == Top(function_context')
          IN
          /\ status' = "run"
          /\ function_context'.value_stack
                 = Append(Prefix(PreStack, h - 2), res)
          /\ res.ty = x.ty
          /\ \A i \in 0..(w - 1) :
                bit(res, i) =
                  IF last'.op \in {"I32Shl", "I64Shl"}
                  THEN (IF i >= s THEN bit(x, i - s) ELSE 0)
                  ELSE IF i + s < w THEN bit(x, i + s)
                  ELSE IF last'.op \in {"I32ShrS", "I64ShrS"}
                  THEN bit(x, w - 1)
                  ELSE 0 ]_vars

\* C15 witness: the 64-bit 1 shifted left by 65 is 2
C15_Witness ==
    /\ last.op = "I64Shl"
    /\ module.operands = << "I64Shl", "I64", <<0, 1>>, <<0, 65>> >>
    /\ status = "run"
    /\ Top(function_context) = I64(<<0, 2>>)

\* C16: a grow_memory that is refused (the pages asked for, as an unsigned
\* number, do not fit under the maximum) pushes the i32 -1 in place of its
\* operand, does not trap, goes on with the next instruction and leaves
\* the memory and its size as they are; current_memory pushes that size.
C16_GrowRefused ==
    [][ /\ last'.op = "GrowMemory" =>
              LET pages == Top(function_context).v
                  maximum == ModuleOf(module).memory.maximum
                  most == IF maximum.some THEN maximum.val ELSE 65536 IN
              (pages < 0 \/ pages + memory.current_size > most) =>
                  /\ status' = "run"
                  /\ function_context'.value_stack
                         = Append(Front(PreStack), I32(-1))
                  /\ function_context'.position
                         = function_context.position + 1
                  /\ memory'.current_size = memory.current_size
                  /\ memory' = memory
        /\ last'.op = "CurrentMemory" =>
              /\ memory' = memory
              /\ function_context'.value_stack
                     = Append(PreStack, I32(memory.current_size)) ]_vars

\* C16 witness: growing the one-page memory by two pages was refused
C16_Witness ==
    /\ last.op = "GrowMemory"
    /\ module.operands[1] = 2
    /\ status = "run"
    /\ Top(function_context) = I32(-1)
    /\ memory.current_size = 1

\* C17: call_indirect pops an i32 index into the default table and
\* traps TableAccessOutOfBounds when the index, as an unsigned number, is
\* outside the table, else ElemUninitialized when the element was never
\* set, else UnexpectedSignature when the function's signature differs
\* from the type at the declared index; a trap creates no frame.  Only
\* when all three checks pass is the function called: an internal
\* function gets a frame, a host function is asked for its answer.
C17_CallIndirect ==
    [][ last'.op = "CallIndirect" =>
          LET m == ModuleOf(module)
              index == Top(function_context).v
              rest == Front(PreStack)
              refused(kind) ==
                  /\ status' = "trap"
                  /\ trap' = kind
                  /\ function_stack' = function_stack
                  /\ function_context'.value_stack = rest
          IN
          IF index < 0 \/ index >= Len(m.table)
          THEN refused("TableAccessOutOfBounds")
          ELSE IF ~m.table[index + 1].some
          THEN refused("ElemUninitialized")
          ELSE LET f == m.funcs[m.table[index + 1].val + 1]
                   type == m.types[last'.instr.operand + 1] IN
               IF f.params # type.params \/ f.ret # type.ret
               THEN refused("UnexpectedSignature")
               ELSE IF f.kind = "Internal"
               THEN /\ status' = "loop"
                    /\ Len(function_stack') = Len(function_stack) + 2
                    /\ Back(function_stack').function
                           = m.table[index + 1].val
                    /\ Back(function_stack').locals
                           = SubSeq(rest, Len(rest) - Len(f.params) + 1,
                                    Len(rest))
                    /\ Back(function_stack').position = 0
               ELSE IF last'.host_ret.trap
               THEN status' = "trap" /\ trap' = last'.host_ret.kind
               ELSE IF value_type_of(last'.host_ret.val) # f.ret
               THEN status' = "trap" /\ trap' = "UnexpectedSignature"
               ELSE /\ status' = "loop"
                    /\ Back(function_stack').value_stack
                           = Append(rest, last'.host_ret.val.val) ]_vars

\* C17 witness: the element is a function of type (i32) -> i32 and the
\* declared type is () -> i32
C17_Witness ==
    /\ last.op = "CallIndirect"
    /\ module.operands = <<0, 1>>
    /\ status = "trap"
    /\ trap = "UnexpectedSignature"
    /\ function_stack = << >>
    /\ function_context.value_stack = << >>

\* C19: check_function_args gives Ok exactly when there are as many
\* arguments as parameters and every argument has the type of the
\* parameter at its position; otherwise, also when there are more
\* arguments than parameters, it gives a Function error, which is not a
\* trap.
C19_CheckFunctionArgs ==
    [][ last'.op = "invoke" =>
          LET params == funcs[invocation.func + 1].params
              args == invocation.args
              matches == /\ Len(args) = Len(params)
                         /\ \A i \in 1..Len(args) : args[i].ty = params[i]
          IN /\ matches <=> last'.outcome.err = "none"
             /\ ~matches => last'.outcome.err = "Function"
             /\ last'.outcome.err \in {"none", "Function"} ]_vars

\* C19 witness: three arguments whose first two fit the two parameters
C19_Witness ==
    /\ last.op = "invoke"
    /\ invocation.func = 0
    /\ Len(invocation.args) = 3
    /\ invocation.args[1].ty = "I32"
    /\ invocation.args[2].ty = "I64"
    /\ status = "error"
    /\ last.outcome.err = "Function"

\* C20: every frame of the invocation, running or suspended, belongs to
\* an internal function, and a call of a host function leaves the number
\* of frames as it is (a nested call) or at none (the invoked function
\* itself is a host function).
C20_OnlyInternalFrames ==
    [][ /\ \A i \in DOMAIN Frames : funcs[Frames[i].function + 1].kind = "Internal"
        /\ \A i \in DOMAIN Frames' :
               funcs[Frames'[i].function + 1].kind = "Internal"
        /\ (last'.op = "Call" /\ status' = "loop"
              /\ funcs[last'.instr.index + 1].kind = "Host") =>
               /\ Len(Frames') = Len(Frames)
               /\ Back(Frames').function = function_context.function
        /\ (last'.op = "invoke" /\ last'.outcome.err = "none"
              /\ funcs[invocation.func + 1].kind = "Host") =>
               /\ Frames' = << >>
               /\ status' \in {"done", "trap"}
               /\ status' = "done" => result' = last'.host_ret.val ]_vars

\* C20 witness: the host function the embedder invoked has answered
C20_Witness ==
    /\ last.op = "invoke"
    /\ invocation.func = 1
    /\ status = "done"
    /\ result = Some(I32(1))
    /\ function_stack = << >>
    /\ function_context = NoContext

\* C18: select pops the condition and the two values below it and pushes
\* back the deeper of the two when the condition is not zero and the
\* upper one when it is zero; the stack is two shorter than before.
C18_Select ==
    [][ last'.op = "Select" =>
          LET h == Len(PreStack)
              chosen == IF PreStack[h].v # 0
                        THEN PreStack[h - 2] ELSE PreStack[h - 1] IN
          /\ status' = "run"
          /\ function_context'.value_stack
                 = Append(Prefix(PreStack, h - 3), chosen)
          /\ Len(function_context'.value_stack) = h - 2
          /\ function_context'.position = function_context.position + 1 ]_vars

\* C18 witness: the condition was zero and the second value was taken
C18_Witness ==
    /\ last.op = "Select"
    /\ module.k = 0
    /\ status = "run"
    /\ function_context.value_stack = << I32(20) >>

\* C21: the frame the loop pops for the first time gets as locals its call
\* arguments followed by one zero of the declared type per declared local;
\* a frame that was popped before (it was suspended for a nested call) is
\* resumed with the locals it had, nothing is appended again; a suspended
\* frame's locals never change; and every frame has as many locals as its
\* function has parameters (before its first pop) or parameters and
\* declared locals (after it).
C21_LocalsInitializedOnce ==
    [][ LET Decl(f) == funcs[f + 1].locals
            Upto(f) == LET u[i \in 0..Len(Decl(f))] ==
                               IF i = 0 THEN 0 ELSE u[i - 1] + Decl(f)[i].count
                       IN u
            Declared(f) == Upto(f)[Len(Decl(f))]
            TypeAt(f, j) ==
                Decl(f)[CHOOSE i \in 1..Len(Decl(f)) :
                            Upto(f)[i - 1] < j /\ j <= Upto(f)[i]].value_type
            Zero(t) == IF t = "I64" THEN I64(<<0, 0>>) ELSE I32(0)
        IN
        /\ (last'.op = "pop_frame" /\ status' = "run") =>
              LET ctx == Back(function_stack)
                  n == Len(funcs[ctx.function + 1].params) IN
              IF ctx.is_initialized
              THEN function_context'.locals = ctx.locals
              ELSE /\ function_context'.is_initialized
                   /\ Len(function_context'.locals)
                          = n + Declared(ctx.function)
                   /\ Prefix(function_context'.locals, n) = ctx.locals
                   /\ \A j \in 1..Declared(ctx.function) :
                          function_context'.locals[n + j]
                              = Zero(TypeAt(ctx.function, j))
        /\ (last'.op \in {"Call", "CallIndirect"} /\ status' = "loop"
               /\ Len(function_stack') = Len(function_stack) + 2) =>
              function_stack'[Len(function_stack') - 1].locals
                  = function_context.locals
        /\ \A i \in 1..Len(function_stack') :
              i <= Len(function_stack) =>
                  function_stack'[i].locals = function_stack[i].locals
        /\ \A i \in 1..Len(Frames') :
              LET f == Frames'[i] IN
              Len(f.locals) = Len(funcs[f.function + 1].params)
                  + (IF f.is_initialized THEN Declared(f.function) ELSE 0)
      ]_vars

\* C21 witness: the caller, whose local 2 was set before it called, has
\* been resumed after the callee's return with its four locals as they
\* were, and the callee had been given its argument and two zeros
C21_Witness ==
    /\ module.name = "locals_kept"
    /\ last.op = "pop_frame"
    /\ status = "run"
    /\ function_context.function = 0
    /\ function_context.position = 4
    /\ function_context.locals
           = << I32(1), I64(<<0, 0>>), I32(module.k), I64(<<0, 0>>) >>
    /\ module.k = 3

\* C22: the last instruction of every compiled body is a Return whose keep
\* is 1 exactly when the function has a result and whose drop is the number
\* of its parameters and declared locals; a body whose text ends with an
\* explicit return has that return's Return before it.  For the texts of
\* the compile tests the compiler gives the code the tests record.
C22_FinalReturn ==
    /\ \A i \in DOMAIN funcs :
          funcs[i].kind = "Internal" =>
              Back(funcs[i].code)
                  = Return(Len(funcs[i].params)
                               + Len(ExpandLocals(funcs[i].locals)),
                           IF funcs[i].ret.some THEN 1 ELSE 0)
    /\ module.name \in TestNames =>
          /\ compile(wat(module.name, <<>>)) = funcs[1]
          /\ LET body == wat(module.name, <<>>).body IN
             (body # <<>> /\ Back(body).op = "return") =>
                 /\ Len(funcs[1].code) >= 2
                 /\ funcs[1].code[Len(funcs[1].code) - 1].op = "Return"
    /\ module.name \in {"locals", "branch"} =>
          Len(funcs[1].code)
              = 1 + Len(SelectSeq(wat(module.name, module.operands).body,
                                  LAMBDA i : i.op \notin {"block", "loop",
                                                          "end"}))

\* C22 witness: the body of explicit_return, one parameter and a result,
\* is running and ends with the explicit return's Return and the final one
C22_Witness ==
    /\ module.name = "explicit_return"
    /\ status = "run"
    /\ SubSeq(funcs[1].code, 2, 3) = << Return(1, 1), Return(1, 1) >>
    /\ Back(wat("explicit_return", <<>>).body).op = "return"

\* C23: get_local n, compiled at operand height h in a function with L
\* parameters and declared locals, emits GetLocal(h + L - n): in the built
\* bodies h is the number of constants before it; in the test texts it is
\* the number of values pushed before it (where only constants, get_locals
\* and block openers precede it).  The two reads of add_params, of locals
\* 0 and 1 of a two-parameter function, both emit GetLocal(2).
C23_GetLocalDepth ==
    /\ (module.name = "locals" /\ module.operands[4] = "get_local") =>
          LET o == module.operands IN
          funcs[1].code[o[3] + 1] = GetLocal(o[3] + (o[1] + o[2]) - o[5])
    /\ module.name \in TestNames =>
          LET body == wat(module.name, <<>>).body
              L == Len(funcs[1].params) + Len(ExpandLocals(funcs[1].locals))
              Pushes(i) == Len(SelectSeq(SubSeq(body, 1, i - 1),
                                         LAMBDA x : x.op # "block"))
              Straight(i) == \A j \in 1..(i - 1) :
                                body[j].op \in {"i32.const", "get_local",
                                                "block"}
          IN \A i \in DOMAIN body :
                (body[i].op = "get_local" /\ Straight(i)) =>
                    funcs[1].code[Pushes(i) + 1]
                        = GetLocal(Pushes(i) + L - body[i].operand)
    /\ module.name = "add_params" =>
          SubSeq(funcs[1].code, 1, 2) = << GetLocal(2), GetLocal(2) >>

\* C23 witness: local 1 of a function with one parameter and one declared
\* local was read above two operands, by GetLocal(3)
C23_Witness ==
    /\ module.name = "locals"
    /\ module.operands = <<1, 1, 2, "get_local", 1>>
    /\ last.op = "GetLocal"
    /\ last.instr = GetLocal(3)
    /\ function_context.position = 2

\* C24 as stated: set_local n and tee_local n, compiled with h operands on
\* the stack (the value among them) in a function with L parameters and
\* declared locals, emit the depth h + L - n that local n has before the
\* value is popped.
C24_PrePopDepth ==
    /\ (module.name = "locals" /\ module.operands[4] # "get_local") =>
          LET o == module.operands IN
          funcs[1].code[o[3] + 1].op \in {"SetLocal", "TeeLocal"}
          /\ (IF module.operands[4] = "set_local"
              THEN funcs[1].code[o[3] + 1].depth
              ELSE funcs[1].code[o[3] + 1].operand)
                 = o[3] + (o[1] + o[2]) - o[5]
    /\ module.name \in TestNames =>
          LET body == wat(module.name, <<>>).body
              L == Len(funcs[1].params) + Len(ExpandLocals(funcs[1].locals))
              Pushes(i) == Len(SelectSeq(SubSeq(body, 1, i - 1),
                                         LAMBDA x : x.op # "block"))
              Straight(i) == \A j \in 1..(i - 1) :
                                body[j].op \in {"i32.const", "get_local",
                                                "block"}
          IN \A i \in DOMAIN body :
                (body[i].op = "set_local" /\ Straight(i)) =>
                    funcs[1].code[Pushes(i) + 1]
                        = SetLocal(Pushes(i) + L - body[i].operand)

\* C24, amended: set_local n emits the depth local n has once the value is
\* popped, (h - 1) + L - n; tee_local n, which leaves the value on the
\* stack, emits h + L - n.
C24_SetLocalDepthAfterPop ==
    /\ (module.name = "locals" /\ module.operands[4] = "set_local") =>
          LET o == module.operands IN
          funcs[1].code[o[3] + 1]
              = SetLocal((o[3] - 1) + (o[1] + o[2]) - o[5])
    /\ (module.name = "locals" /\ module.operands[4] = "tee_local") =>
          LET o == module.operands IN
          funcs[1].code[o[3] + 1]
              = Instruction("TeeLocal", o[3] + (o[1] + o[2]) - o[5])
    /\ module.name \in TestNames =>
          LET body == wat(module.name, <<>>).body
              L == Len(funcs[1].params) + Len(ExpandLocals(funcs[1].locals))
              Pushes(i) == Len(SelectSeq(SubSeq(body, 1, i - 1),
                                         LAMBDA x : x.op # "block"))
              Straight(i) == \A j \in 1..(i - 1) :
                                body[j].op \in {"i32.const", "get_local",
                                                "block"}
          IN \A i \in DOMAIN body :
                (body[i].op = "set_local" /\ Straight(i)) =>
                    funcs[1].code[Pushes(i) + 1]
                        = SetLocal((Pushes(i) - 1) + L - body[i].operand)

\* C24 witness: with two operands on the stack, set_local 1 of a function
\* with one parameter and one declared local was run as SetLocal(2)
C24_Witness ==
    /\ module.name = "locals"
    /\ module.operands = <<1, 1, 2, "set_local", 1>>
    /\ last.op = "SetLocal"
    /\ last.instr = SetLocal(2)

\* C25: set_local n compiled with exactly one operand, the value to store,
\* above the L parameters and declared locals emits SetLocal(L - n).  The
\* recorded code of drop_locals is [GetLocal(2), SetLocal(1), Return{2, 0}]
\* and each `i32.const c; set_local 0` of if_else, with its single declared
\* local, emits SetLocal(1).
C25_SetLocalAboveLocals ==
    /\ (module.name = "locals" /\ module.operands[4] = "set_local"
           /\ module.operands[3] = 1) =>
          funcs[1].code[2]
              = SetLocal(module.operands[1] + module.operands[2]
                             - module.operands[5])
    /\ module.name = "drop_locals" =>
          /\ funcs[1].code = << GetLocal(2), SetLocal(1), Return(2, 0) >>
          /\ Len(funcs[1].params) = 1
          /\ funcs[1].locals = << Local(1, I32T) >>
    /\ module.name = "if_else" =>
          LET body == wat("if_else", <<>>).body
              Emitted(i) == Len(SelectSeq(SubSeq(body, 1, i),
                                          LAMBDA x : x.op \notin
                                              {"block", "loop", "end"}))
          IN /\ funcs[1].params = <<>>
             /\ funcs[1].locals = << Local(1, I32T) >>
             /\ \A i \in 2..Len(body) :
                   (body[i] = [op |-> "set_local", operand |-> 0]
                       /\ body[i - 1].op = "i32.const") =>
                       /\ funcs[1].code[Emitted(i) - 1].op = "I32Const"
                       /\ funcs[1].code[Emitted(i)] = SetLocal(1)
             /\ \E i \in 2..Len(body) : body[i].op = "set_local"

\* C25 witness: the SetLocal(1) of if_else's true branch was run with the
\* constant 2 as the only operand
C25_Witness ==
    /\ module.name = "if_else"
    /\ last.op = "SetLocal"
    /\ last.instr = SetLocal(1)
    /\ function_context.position \in {3, 4}
    /\ funcs[1].code[3] = I32Const(2)

C27_LoopLabel ==
    /\ module.name = "branch" =>
          LET o == module.operands
              text == wat("branch", o)
              at == CHOOSE i \in DOMAIN text.body : text.body[i].op = o[5]
              p == Len(SelectSeq(SubSeq(text.body, 1, at),
                                 LAMBDA x : x.op \notin
                                     {"block", "loop", "end"}))
              cut == compile([text EXCEPT !.body = SubSeq(text.body, 1, at)])
          IN IF o[1] = "loop"
             THEN /\ funcs[1].code[p].target.dst_pc = o[3]
                  /\ funcs[1].code[p].target.keep = 0
                  /\ cut.code[p].target.dst_pc = o[3]
             ELSE /\ funcs[1].code[p].target.dst_pc > p - 1
                  /\ cut.code[p].target.dst_pc = -1
    /\ module.name = "empty_loop" =>
          /\ wat("empty_loop", <<>>).body[1] = [op |-> "loop", operand |-> 1]
          /\ funcs[1].code[2].op = "BrIfNez"
          /\ funcs[1].code[2].target.dst_pc = 0
          /\ funcs[1].code[2].target.drop = 1
          /\ funcs[1].code[2].target.keep = 0

\* C27 witness: a br to a loop with a result that starts at position 1 was
\* taken from above one surplus operand and went back to position 1
\* without a value
C27_Witness ==
    /\ module.name = "branch"
    /\ module.operands = <<"loop", 1, 1, 0, "br", 1>>
    /\ last.op = "Br"
    /\ last.instr.target.dst_pc = 1
    /\ last.instr.target.keep = 0
    /\ status = "run"
    /\ function_context.position = 1
    /\ function_context.value_stack = << I32(6) >>

\* C28: the BrIfEqz emitted for an `if` goes to the first instruction of
\* the else branch when the if has one and to the first instruction after
\* its end otherwise; the Br emitted at an `else` goes to the first
\* instruction after the end; both have drop 0 and keep 0.  Positions are
\* counted from the text: the instruction after the opcode at index j is
\* at the position that is the number of instructions emitted up to j.
C28_IfElseTargets ==
    module.name \in TestNames \cup {"branch"} =>
        LET body == wat(module.name,
                        IF module.name = "branch" THEN module.operands
                        ELSE <<>>).body
            Emitted(i) == Len(SelectSeq(SubSeq(body, 1, i),
                                        LAMBDA x : x.op \notin
                                            {"block", "loop", "end"}))
            Count(i, j, ops) == Len(SelectSeq(SubSeq(body, i + 1, j - 1),
                                              LAMBDA x : x.op \in ops))
            Balanced(i, j) == Count(i, j, {"block", "loop", "if"})
                                  = Count(i, j, {"end"})
            \* the else or end of the frame opened or continued at i
            Match(i) == CHOOSE j \in (i + 1)..Len(body) :
                           /\ body[j].op \in {"else", "end"}
                           /\ Balanced(i, j)
                           /\ \A t \in (i + 1)..(j - 1) :
                                 ~(body[t].op \in {"else", "end"}
                                      /\ Balanced(i, t))
        IN \A i \in DOMAIN body :
              body[i].op = "if" =>
                  LET j == Match(i)
                      br_if_eqz == funcs[1].code[Emitted(i)] IN
                  /\ br_if_eqz.op = "BrIfEqz"
                  /\ br_if_eqz.target.dst_pc = Emitted(j)
                  /\ br_if_eqz.target.drop = 0
                  /\ br_if_eqz.target.keep = 0
                  /\ body[j].op = "else" =>
                        LET br == funcs[1].code[Emitted(j)] IN
                        /\ br.op = "Br"
                        /\ br.target.dst_pc = Emitted(Match(j))
                        /\ br.target.drop = 0
                        /\ br.target.keep = 0

\* C28 witness: the BrIfEqz of an if with an else found a zero condition
\* and went to the instruction after the else's Br
C28_Witness ==
    /\ module.name = "branch"
    /\ module.operands = <<"else", 1, 1, 0, "br", 0>>
    /\ last.op = "BrIfEqz"
    /\ status = "run"
    /\ function_context.position = last.instr.target.dst_pc
    /\ funcs[1].code[function_context.position].op = "Br"
    /\ funcs[1].code[function_context.position].target.dst_pc
           > function_context.position

\* C29: in the code of every function no branch is left pending: the
\* dst_pc of every Br, BrIfEqz and BrIfNez and of every BrTable entry is a
\* position of the function's code.  The code of a module does not change
\* while it runs: it is examined in the state the invocation starts in.
C29_TargetsResolved ==
    \A f \in DOMAIN funcs :
        (last.op = "start" /\ funcs[f].kind = "Internal") =>
            \A p \in DOMAIN funcs[f].code :
                LET instr == funcs[f].code[p]
                    Valid(t) == t.dst_pc \in 0..(Len(funcs[f].code) - 1)
                IN /\ instr.op \in {"Br", "BrIfEqz", "BrIfNez"} =>
                      Valid(instr.target)
                   /\ instr.op = "BrTable" =>
                      \A j \in DOMAIN instr.table : Valid(instr.table[j])

\* C29 witness: the br out of an if without else, a forward label that is
\* resolved at the if's end to the final Return, the last position of the
\* code, was taken
C29_Witness ==
    /\ module.name = "branch"
    /\ module.operands = <<"then", 0, 0, 0, "br", 0>>
    /\ last.op = "Br"
    /\ status = "run"
    /\ function_context.position = Len(funcs[1].code) - 1
    /\ last.instr.target.dst_pc = function_context.position

\* C30: validate_module accepts a module with a table or a memory, defined
\* or imported, exactly when the table or memory has no maximum or its
\* minimum is at most its maximum: 10 / 9 is rejected, 10 / 10 and 10
\* without a maximum are accepted.
C30_Limits ==
    [][ (last'.op = "validate_module" /\ module.name = "limits") =>
          LET min == module.operands[2]
              max == module.operands[3] IN
          /\ status' \in {"validated", "error"}
          /\ status' = "validated" <=> (~max.some \/ min <= max.val)
          /\ (min = 10 /\ max = Some(9)) => status' = "error"
          /\ (min = 10 /\ max \in {Some(10), None}) => status' = "validated"
      ]_vars

\* C30 witness: an imported memory with minimum 10 and maximum 10 was
\* accepted
C30_Witness ==
    /\ module.name = "limits"
    /\ module.operands = <<"imported memory", 10, Some(10)>>
    /\ last.op = "validate_module"
    /\ status = "validated"

\* C31: validate_module rejects every module with more than one memory or
\* more than one table, imported and defined ones counted together: one
\* imported plus one defined memory (or table) is rejected, while at most
\* one of each is accepted.
C31_OneTableOneMemory ==
    [][ (last'.op = "validate_module" /\ module.name = "module_limits") =>
          LET tables == module.operands[1] + module.operands[2]
              memories == module.operands[3] + module.operands[4] IN
          /\ (tables > 1 \/ memories > 1) =>
                (status' = "error" /\ trap' = "Validation")
          /\ (tables <= 1 /\ memories <= 1) => status' = "validated"
      ]_vars

\* C31 witness: a module with one imported and one defined memory was
\* rejected
C31_Witness ==
    /\ module.name = "module_limits"
    /\ module.operands = <<0, 0, 1, 1>>
    /\ last.op = "validate_module"
    /\ status = "error"

C33_GrowPushesPreviousSize ==
    [][ /\ last'.op = "GrowMemory" =>
              LET n == Top(function_context).v
                  maximum == ModuleOf(module).memory.maximum
                  most == IF maximum.some THEN maximum.val ELSE 65536 IN
              (n >= 0 /\ n + memory.current_size <= most) =>
                  /\ status' = "run"
                  /\ function_context'.value_stack
                         = Append(Front(PreStack), I32(memory.current_size))
                  /\ memory'.current_size = memory.current_size + n
                  /\ n = 0 => memory' = memory
        /\ (last'.op = "CurrentMemory" /\ module.name = "memory_ops"
            /\ module.operands[1] \in {0, 1}) =>
              \* memory_ops has grown its memory by operands[1] pages
              Top(function_context')
                  = I32(ModuleOf(module).memory.initial
                        + module.operands[1]) ]_vars

\* C33 witness: the one-page memory was grown by one page, and the
\* current_memory after it has pushed 2
C33_Witness ==
    /\ module.name = "memory_ops"
    /\ module.operands[1] = 1
    /\ last.op = "CurrentMemory"
    /\ status = "run"
    /\ Top(function_context) = I32(2)
    /\ memory.current_size = 2

\* C34: when a Return executes, the function's result is the value on top
\* of the frame's value stack when the function has a result type and no
\* value otherwise, and the Return's DropKeep, applied to the frame's value
\* stack, collapses it to at most that one result: the drop and the kept
\* value fit in the stack, and nothing but the result is left of it.
C34_ReturnCollapses ==
    [][ (last'.op = "Return" /\ status' # "panic") =>
          LET ret == FuncOf(function_context).ret
              arity == IF ret.some THEN 1 ELSE 0
              returned == IF ret.some THEN Some(Back(PreStack)) ELSE None
          IN
          /\ function_stack = << >> => result' = returned
          /\ (function_stack # << >> /\ ret.some /\ status' = "loop") =>
                Top(Back(function_stack')) = returned.val
          /\ Instr.keep = arity
          /\ Instr.drop + Instr.keep <= Len(PreStack)
          /\ Len(PreStack) - Instr.drop = arity
      ]_vars

C36_CallerUnchanged ==
    [][ /\ (status = "run" /\ status' = "loop"
            /\ last'.op \in {"Call", "CallIndirect"}
            /\ last'.how = "call_internal") =>
              LET suspended == function_stack'[Len(function_stack') - 1]
                  callee == FuncOf(Back(function_stack'))
                  operands == IF last'.op = "Call" THEN PreStack
                              ELSE Front(PreStack) IN
              /\ Len(function_stack') = Len(function_stack) + 2
              /\ Prefix(function_stack', Len(function_stack))
                    = function_stack
              /\ suspended.function = function_context.function
              /\ suspended.locals = function_context.locals
              /\ suspended.position = function_context.position + 1
              /\ suspended.value_stack
                    = Prefix(operands, Len(operands) - Len(callee.params))
        /\ (status = "run" /\ status' = "run") =>
              function_stack' = function_stack
        /\ (status = "run" /\ status' = "loop" /\ last'.op = "Return") =>
              LET caller == Back(function_stack) IN
              /\ Len(function_stack') = Len(function_stack)
              /\ Front(function_stack') = Front(function_stack)
              /\ Back(function_stack')
                    = [caller EXCEPT !.value_stack =
                          IF FuncOf(function_context).ret.some
                          THEN Append(@, Top(function_context)) ELSE @]
        /\ (status = "loop" /\ status' = "run"
            /\ Back(function_stack).is_initialized) =>
              /\ function_context' = Back(function_stack)
              /\ function_stack' = Front(function_stack)
      ]_vars

\* C36 witness: the caller of call_internal has been resumed after its
\* second call, of a function without result, with the sum it had on its
\* stack at the call
C36_Witness ==
    /\ module.name = "call_internal"
    /\ last.op = "pop_frame"
    /\ status = "run"
    /\ function_context.function = 0
    /\ function_context.position = 6
    /\ function_context.value_stack = << I32(12) >>

\* C37: the depth of nested calls is bounded by the room of the value
\* stack: a function that is entered again while a frame of it is
\* suspended gets a smaller limit than that frame has, so that a function
\* that keeps calling itself ends with a StackOverflow trap and the frame
\* stack does not grow without bound.
C37_CallDepthBounded ==
    \A i, j \in 1..Len(Frames) :
        (i < j /\ Frames[i].function = Frames[j].function) =>
            Frames[j].limit < Frames[i].limit

\* C38: a trap does not roll back earlier effects: the step that traps
\* leaves the memory and the globals as they were before the trapping
\* opcode, so the global set, the memory grow and the memory store that
\* were completed before it are those of the module instance when the
\* invocation has returned the trap.
C38_TrapKeepsEffects ==
    [][ status' = "trap" =>
          /\ memory' = memory
          /\ globals' = globals
          /\ module.name = "effects" =>
                /\ globals' = << I32(module.operands[1]) >>
                /\ memory'.current_size = 2
                /\ [i \in 1..4 |-> memory'.bytes[65535 + i]] = <<4, 3, 2, 1>>
      ]_vars

\* C38 witness: the out-of-bounds load of effects has trapped, with the
\* global set to 7, the memory grown to two pages and the stored bytes in
\* the second page
C38_Witness ==
    /\ module.name = "effects"
    /\ module.operands = << 7, -1, 0, "I32Load" >>
    /\ status = "trap"
    /\ trap = "MemoryAccessOutOfBounds"
    /\ globals = << I32(7) >>
    /\ memory.current_size = 2
    /\ memory.bytes[65536] = 4

\* C39: the position of every frame, running or suspended, is an index
\* into the code of its function: after a fall-through, a taken branch
\* and a call that is resumed the interpreter reads no instruction at or
\* past the end of the code.
C39_PositionValid ==
    \A i \in 1..Len(Frames) :
        /\ Frames[i].position >= 0
        /\ Frames[i].position < Len(FuncOf(Frames[i]).code)

\* C39 witness: the second function of call_chain has been resumed after
\* its call, at the i32.add that follows it
C39_Witness ==
    /\ module.name = "call_chain"
    /\ last.op = "pop_frame"
    /\ status = "run"
    /\ function_context.function = 1
    /\ function_context.position = 4
    /\ FuncOf(function_context).code[5].op = "I32Add"

\* C40: at the start of every iteration of the interpreter loop the frame
\* stack is not empty, so the pop of the topmost frame never fails: the
\* loop is entered with one frame, a return without a caller leaves the
\* loop, and a return to a caller, a nested call and a host call leave
\* at least one frame on the stack.
C40_FrameStackNonEmpty ==
    /\ status = "loop" => function_stack # << >>
    /\ ~(status = "panic" /\ trap = "on loop entry - not empty")
    /\ (status = "loop" /\ last.how = "call_internal") =>
          Len(function_stack) >= 2
    /\ (status = "done" /\ last.op = "Return") => function_stack = << >>

\* C40 witness: the loop is about to start an iteration after a callee
\* without a caller of its own caller has returned: the one frame on the
\* stack is the caller's
C40_Witness ==
    /\ status = "loop"
    /\ last.op = "Return"
    /\ last.how = "return_caller"
    /\ Len(function_stack) = 1

====
